---- MODULE Spec2Model ----
(***************************************************************************)
(* Model of the finances-ia application: the domain store kept by the      *)
(* FinanceProvider (src/src/contexts/FinanceContext.tsx), its rule         *)
(* evaluator (budget, wish and due-date checks), the local-storage helper  *)
(* (src/src/lib/storage.ts) and the persistence facade firebaseService     *)
(* with the provider built on it (src/unnamed/part_007 and part_000).      *)
(*                                                                         *)
(* Money is counted in whole currency units; the 0.01 tolerance of the     *)
(* exact-match rule therefore coincides with equality.  Text of titles is  *)
(* written without accents and emoji; a message is the tuple of the values *)
(* interpolated into the source's template string.                         *)
(***************************************************************************)
EXTENDS Integers, Sequences, FiniteSets, TLC

\* ---------------------------------------------------------------- bounds
MaxTransactions == 3
MaxCategories == 2
MaxNotifications == 3
MaxTimers == 1
MaxWishes == 2
MaxMonthlyExpenses == 2

CategoryNames == {"Food", "Fun"}
IncomeCategories == {"Salary", "Food"}
ExpenseAmounts == {125}
IncomeAmounts == {500}
\* (budget, maxBudget) pairs of a stored category: budget 0 is what the
\* category form writes, the other is a free input of the store's addCategory.
CategoryBudgets == {<<0, 500>>, <<500, 375>>, <<400, 500>>}
\* (name, estimatedPrice) of a wish
WishGoals == {<<"Bike", 375>>, <<"Trip", 500>>}
WishStatuses == {"pending", "achieved"}
ExpenseNames == {"Netflix"}
MonthlyAmounts == {45}
ChargeDays == {10, 31}
MonthLengths == {28, 30, 31}
Hours == {0, 12}

VARIABLES
  transactions,     \* useState<Transaction[]>
  categories,       \* useState<Category[]>
  wishes,           \* useState<Wish[]>
  monthlyIncomes,   \* useState<MonthlyIncome[]>
  monthlyExpenses,  \* useState<MonthlyExpense[]>
  notifications,    \* useState<Notification[]>
  shoppingList,     \* useState<ShoppingItem[]>
  timers,           \* pending setTimeout callbacks, each with the render it closes over
  dueTimer,         \* the timer of the due-date effect (at most one: its cleanup clears it)
  today,            \* the clock read by new Date()
  nextId,           \* source of generateId()
  lastOp,           \* the rule check that ran last: what it saw and where it started writing
  localStorage,     \* window.localStorage: key -> stored array
  db,               \* the Firestore client exported by firebase.ts, or null
  cloud,            \* the Firestore database: collection name -> documents
  lastCall,         \* the persistence call that settled last: arguments and outcome
  saved             \* history: key -> the collection last handed to a save function of storage.ts called on its own

vars == <<transactions, categories, wishes, monthlyIncomes, monthlyExpenses,
          notifications, shoppingList, timers, dueTimer, today, nextId, lastOp, localStorage,
          db, cloud, lastCall, saved>>

\* the state of the persistence layer that the local-storage provider never touches
persistenceVars == <<db, cloud, lastCall, saved>>

\* the state of a mounted provider
providerVars == <<transactions, categories, wishes, monthlyIncomes, monthlyExpenses,
                  notifications, shoppingList, timers, dueTimer, today, lastOp>>

\* ------------------------------------------------------- sequence helpers
RECURSIVE SumAmounts(_)
SumAmounts(s) == IF s = <<>> THEN 0 ELSE Head(s).amount + SumAmounts(Tail(s))

RECURSIVE FlatMap(_, _)
FlatMap(F(_), s) == IF s = <<>> THEN <<>> ELSE F(Head(s)) \o FlatMap(F, Tail(s))

SeqsUpTo(S, n) == UNION {[1..k -> S] : k \in 0..n}

\* array.filter(pred)
Filter(s, Test(_)) == SelectSeq(s, Test)

\* ------------------------------------------------------------ generateId
\* generateId(): the ids handed to the k records created by one handler.
WithIds(drafts, base) ==
  [i \in 1..Len(drafts) |-> [drafts[i] EXCEPT !.id = base + i - 1]]

\* ------------------------------------------------------- local storage
TRANSACTIONS == "finances-transactions"
MONTHLY_INCOMES == "finances-monthly-incomes"
MONTHLY_EXPENSES == "finances-monthly-expenses"
CATEGORIES == "finances-categories"
WISHES == "finances-wishes"
NOTIFICATIONS == "finances-notifications"
SHOPPING_LIST == "finances-shopping-list"
STORAGE_KEYS == {TRANSACTIONS, MONTHLY_INCOMES, MONTHLY_EXPENSES, CATEGORIES,
                 WISHES, NOTIFICATIONS, SHOPPING_LIST}

\* A number no JSON text can carry (NaN, Infinity); it is written as null.
NaN == 0 - 9999
Null == 0 - 9998

\* JSON.stringify of one record: non-finite numbers become null.
NumericFields == {"amount", "budget", "maxBudget", "estimatedPrice", "price", "dayOfMonth"}
JsonRecord(r) ==
  [f \in DOMAIN r |-> IF f \in NumericFields /\ r[f] = NaN THEN Null ELSE r[f]]

\* JSON.parse(JSON.stringify(data)) of an array of records
JsonRoundTrip(data) == [i \in 1..Len(data) |-> JsonRecord(data[i])]

\* saveToStorage(key, data): localStorage.setItem(key, JSON.stringify(data))
saveToStorage(ls, key, data) ==
  [k \in (DOMAIN ls) \cup {key} |-> IF k = key THEN JsonRoundTrip(data) ELSE ls[k]]

\* loadFromStorage(key, defaultValue): the parsed item, the default when absent
loadFromStorage(ls, key, defaultValue) ==
  IF key \in DOMAIN ls THEN ls[key] ELSE defaultValue

\* ----------------------------------------------------- the notification
\* new Date().toISOString()
Timestamp == today

Draft(title, type, message) ==
  [id |-> 0, title |-> title, message |-> message, type |-> type,
   timestamp |-> Timestamp, isRead |-> FALSE]

\* ------------------------------------------------------ budget checks
\* the sum over every transaction carrying the name, incomes included
CategoryExpensesOfAnyType(txs, name) ==
  LET IsOf(t) == t.category = name
  IN  SumAmounts(Filter(txs, IsOf))

\* getCategoryExpenses / the filter-reduce of both budget checks
CategoryExpenses(txs, name) ==
  LET IsExpenseOf(t) == t.type = "expense" /\ t.category = name
  IN  SumAmounts(Filter(txs, IsExpenseOf))

\* (categoryExpenses / budget) * 100 >= k, in IEEE arithmetic: a zero budget
\* gives +Infinity for positive spending and NaN (never >=) for none.
PercentageAtLeast(spent, budget, k) ==
  IF budget > 0 THEN 100 * spent >= k * budget
  ELSE IF budget < 0 THEN 100 * spent <= k * budget
  ELSE spent > 0

\* a first pass that reports nothing
BudgetAlertSilent(category, txs) == << >>

\* one iteration of categories.forEach in checkBudgetAlerts
BudgetAlert(category, txs) ==
  LET categoryExpenses == CategoryExpenses(txs, category.name)
      message == <<category.name, categoryExpenses, category.budget>>
  IN  IF PercentageAtLeast(categoryExpenses, category.budget, 100)
        THEN << Draft("Orcamento Excedido", "warning", message) >>
      ELSE IF PercentageAtLeast(categoryExpenses, category.budget, 80)
        THEN << Draft("Orcamento Proximo do Limite", "warning", message) >>
      ELSE << >>

checkBudgetAlertsDrafts(cats, txs) ==
  LET One(category) == BudgetAlert(category, txs) IN FlatMap(One, cats)

\* the second pass with the 75% rule tried before the 90% rule
CategoryBudgetAlertFromSeventyFive(category, txs) ==
  LET categoryExpenses == CategoryExpenses(txs, category.name)
      message == <<category.name, categoryExpenses, category.budget>>
  IN  IF categoryExpenses = category.budget
        THEN << Draft("Orcamento Atingido!", "success", message) >>
      ELSE IF categoryExpenses > category.budget
        THEN << Draft("Orcamento Excedido!", "error", message) >>
      ELSE IF PercentageAtLeast(categoryExpenses, category.budget, 75)
        THEN << Draft("Orcamento em 75%", "info", message) >>
      ELSE << >>

\* one iteration of categories.forEach in checkCategoryBudgetAlerts
CategoryBudgetAlert(category, txs) ==
  LET categoryExpenses == CategoryExpenses(txs, category.name)
      message == <<category.name, categoryExpenses, category.budget>>
  IN  IF categoryExpenses = category.budget
        THEN << Draft("Orcamento Atingido!", "success", message) >>
      ELSE IF categoryExpenses > category.budget
        THEN << Draft("Orcamento Excedido!", "error", message) >>
      ELSE IF PercentageAtLeast(categoryExpenses, category.budget, 90)
        THEN << Draft("Orcamento Quase Esgotado", "warning", message) >>
      ELSE IF PercentageAtLeast(categoryExpenses, category.budget, 75)
        THEN << Draft("Orcamento em 75%", "info", message) >>
      ELSE << >>

checkCategoryBudgetAlertsDrafts(cats, txs) ==
  LET One(category) == CategoryBudgetAlert(category, txs) IN FlatMap(One, cats)

\* ------------------------------------------------- the provider's render
\* What the functions created by one render of FinanceProvider close over.
Render == [transactions |-> transactions, categories |-> categories,
           wishes |-> wishes, monthlyExpenses |-> monthlyExpenses]
NoRender == [transactions |-> <<>>, categories |-> <<>>,
             wishes |-> <<>>, monthlyExpenses |-> <<>>]
NoOp == [op |-> "none", from |-> 0, seen |-> NoRender]

\* addNotification for each draft, followed by the notifications save effect
Notify(drafts, base, ls) ==
  /\ notifications' = notifications \o WithIds(drafts, base)
  /\ localStorage' = saveToStorage(ls, NOTIFICATIONS, notifications')

TransactionInputs ==
  [type : {"expense"}, category : CategoryNames, amount : ExpenseAmounts] \cup
  [type : {"income"}, category : IncomeCategories, amount : IncomeAmounts]

CategoryInputs ==
  {[name |-> n, budget |-> b[1], maxBudget |-> b[2]] : n \in CategoryNames, b \in CategoryBudgets}

\* a record given an id that is not taken from generateId()
WithIdFixed(input, id) == [f \in (DOMAIN input) \cup {"id"} |-> IF f = "id" THEN 0 ELSE input[f]]

WithId(input, id) == [f \in (DOMAIN input) \cup {"id"} |-> IF f = "id" THEN id ELSE input[f]]

\* ------------------------------------------------ FinanceContext.tsx
addTransaction(transaction) ==
  /\ Len(transactions) < MaxTransactions
  /\ Len(notifications) < MaxNotifications
  /\ Len(timers) < MaxTimers
  /\ transactions' = Append(transactions, WithId(transaction, nextId))
  /\ Notify(<< Draft(IF transaction.type = "income" THEN "Receita Adicionada"
                                                    ELSE "Despesa Adicionada",
                     IF transaction.type = "income" THEN "success" ELSE "info",
                     <<transaction.amount, transaction.category>>) >>,
            nextId + 1,
            saveToStorage(localStorage, TRANSACTIONS, transactions'))
  /\ timers' = Append(timers, [kind |-> IF transaction.type = "expense"
                                          THEN "budget" ELSE "wish",
                               seen |-> Render])
  /\ nextId' = nextId + 2
  /\ lastOp' = NoOp
  /\ UNCHANGED persistenceVars
  /\ UNCHANGED <<categories, wishes, monthlyIncomes, monthlyExpenses, shoppingList, dueTimer, today>>

addCategory(category) ==
  /\ Len(categories) < MaxCategories
  /\ Len(notifications) < MaxNotifications
  /\ categories' = Append(categories, WithId(category, nextId))
  /\ Notify(<< Draft("Nova Categoria Criada", "info",
                     <<category.name, category.maxBudget>>) >>,
            nextId + 1,
            saveToStorage(localStorage, CATEGORIES, categories'))
  /\ nextId' = nextId + 2
  /\ lastOp' = NoOp
  /\ UNCHANGED persistenceVars
  /\ UNCHANGED <<transactions, wishes, monthlyIncomes, monthlyExpenses, shoppingList,
                 timers, dueTimer, today>>

\* A rule check run by the render `seen`: the drafts it passes to addNotification.
RunCheck(op, seen, drafts) ==
  /\ Len(notifications) + Len(drafts) <= MaxNotifications
  /\ Notify(drafts, nextId, localStorage)
  /\ nextId' = nextId + Len(drafts)
  /\ lastOp' = [op |-> op, from |-> Len(notifications), seen |-> seen]
  /\ UNCHANGED persistenceVars
  /\ UNCHANGED <<transactions, categories, wishes, monthlyIncomes, monthlyExpenses,
                 shoppingList, today>>

checkBudgetAlerts ==
  /\ RunCheck("checkBudgetAlerts", Render,
              checkBudgetAlertsDrafts(categories, transactions))
  /\ UNCHANGED <<timers, dueTimer>>

checkCategoryBudgetAlerts ==
  /\ RunCheck("checkCategoryBudgetAlerts", Render,
              checkCategoryBudgetAlertsDrafts(categories, transactions))
  /\ UNCHANGED <<timers, dueTimer>>

\* setTimeout(() => { checkBudgetAlerts(); checkCategoryBudgetAlerts() }, 100)
BudgetTimer ==
  \E i \in DOMAIN timers :
    /\ timers[i].kind = "budget"
    /\ RunCheck("budgetTimer", timers[i].seen,
                checkBudgetAlertsDrafts(timers[i].seen.categories, timers[i].seen.transactions)
                \o checkCategoryBudgetAlertsDrafts(timers[i].seen.categories,
                                                   timers[i].seen.transactions))
    /\ timers' = SubSeq(timers, 1, i - 1) \o SubSeq(timers, i + 1, Len(timers))
    /\ UNCHANGED dueTimer

\* ------------------------------------------------------ wish check
getTotalIncomes(txs) ==
  LET IsIncome(t) == t.type = "income" IN SumAmounts(Filter(txs, IsIncome))

getTotalExpenses(txs) ==
  LET IsExpense(t) == t.type = "expense" IN SumAmounts(Filter(txs, IsExpense))

\* the affordability test with a strict comparison
WishAchievementStrict(wish, availableBalance) ==
  IF availableBalance > wish.estimatedPrice /\ wish.status # "achieved"
    THEN << Draft("Desejo Pode Ser Realizado!", "success",
                  <<wish.name, wish.estimatedPrice>>) >>
    ELSE << >>

\* one iteration of wishes.forEach in checkWishAchievements
WishAchievement(wish, availableBalance) ==
  IF availableBalance >= wish.estimatedPrice /\ wish.status # "achieved"
    THEN << Draft("Desejo Pode Ser Realizado!", "success",
                  <<wish.name, wish.estimatedPrice>>) >>
    ELSE << >>

\* the wish pass with nothing found affordable
checkWishAchievementsDraftsNone(ws, txs) == << >>

checkWishAchievementsDrafts(ws, txs) ==
  LET availableBalance == getTotalIncomes(txs) - getTotalExpenses(txs)
      One(wish) == WishAchievement(wish, availableBalance)
  IN  FlatMap(One, ws)

\* ------------------------------------------------------ due-date check
\* Math.ceil((nextMonth.getTime() - today.getTime()) / (1000*60*60*24)) with
\* nextMonth = new Date(year, month + 1, dayOfMonth), local midnight; the
\* constructor counts a day past the end of a month on into the next one.
DaysToNextMonth(now, dayOfMonth) ==
  LET hours == 24 * (now.monthLen - now.day + dayOfMonth) - now.hour
  IN  (hours + 23) \div 24

\* the day count with the charge day itself taken as already passed
daysUntilDueStrict(now, dayOfMonth) ==
  IF now.day < dayOfMonth THEN dayOfMonth - now.day
  ELSE DaysToNextMonth(now, dayOfMonth)

daysUntilDue(now, dayOfMonth) ==
  IF now.day <= dayOfMonth THEN dayOfMonth - now.day
  ELSE DaysToNextMonth(now, dayOfMonth)

\* one iteration of the forEach in checkMonthlyExpenseDueDates
DueDateAlerts(expense, now) ==
  LET d == daysUntilDue(now, expense.dayOfMonth)
      message == <<expense.name, expense.amount, expense.dayOfMonth>>
  IN  (IF d = 7 THEN << Draft("Despesa Mensal Vencendo em 7 Dias", "warning", message) >>
       ELSE << >>)
      \o (IF d = 3 THEN << Draft("Despesa Mensal Vencendo em 3 Dias", "warning", message) >>
          ELSE << >>)
      \o (IF d = 0 THEN << Draft("Despesa Mensal Vence Hoje!", "error", message) >>
          ELSE << >>)
      \o (IF d = -1 THEN << Draft("Despesa Mensal Vencida!", "error", message) >>
          ELSE << >>)

\* the due-date pass with no reminder found due
checkMonthlyExpenseDueDatesDraftsNone(mes, now) == << >>

checkMonthlyExpenseDueDatesDrafts(mes, now) ==
  LET IsActive(expense) == expense.isActive
      One(expense) == DueDateAlerts(expense, now)
  IN  FlatMap(One, Filter(mes, IsActive))

WishInputs ==
  {[name |-> g[1], estimatedPrice |-> g[2], status |-> st] : g \in WishGoals, st \in WishStatuses}

addWish(wish) ==
  /\ Len(wishes) < MaxWishes
  /\ Len(notifications) < MaxNotifications
  /\ wishes' = Append(wishes, WithId(wish, nextId))
  /\ Notify(<< Draft("Novo Desejo Adicionado", "info",
                     <<wish.name, wish.estimatedPrice>>) >>,
            nextId + 1,
            saveToStorage(localStorage, WISHES, wishes'))
  /\ nextId' = nextId + 2
  /\ lastOp' = NoOp
  /\ UNCHANGED persistenceVars
  /\ UNCHANGED <<transactions, categories, monthlyIncomes, monthlyExpenses, shoppingList,
                 timers, dueTimer, today>>

checkWishAchievements ==
  /\ RunCheck("checkWishAchievements", Render,
              checkWishAchievementsDrafts(wishes, transactions))
  /\ UNCHANGED <<timers, dueTimer>>

\* setTimeout(() => checkWishAchievements(), 100)
WishTimer ==
  \E i \in DOMAIN timers :
    /\ timers[i].kind = "wish"
    /\ RunCheck("wishTimer", timers[i].seen,
                checkWishAchievementsDrafts(timers[i].seen.wishes,
                                            timers[i].seen.transactions))
    /\ timers' = SubSeq(timers, 1, i - 1) \o SubSeq(timers, i + 1, Len(timers))
    /\ UNCHANGED dueTimer

\* useEffect(..., [monthlyExpenses]): the cleanup clears the pending timer and
\* a non-empty collection sets a new one, closing over the new render.
\* the effect replaces the pending timer only when none was pending
DueDateEffectKeepsPending ==
  dueTimer' = IF Len(monthlyExpenses') > 0
                THEN Append(dueTimer, [Render EXCEPT !.monthlyExpenses = monthlyExpenses'])
                ELSE dueTimer

DueDateEffect ==
  dueTimer' = IF Len(monthlyExpenses') > 0
                THEN << [Render EXCEPT !.monthlyExpenses = monthlyExpenses'] >>
                ELSE << >>

MonthlyExpenseInputs ==
  [name : ExpenseNames, amount : MonthlyAmounts, dayOfMonth : ChargeDays, isActive : BOOLEAN]

\* Partial<Omit<MonthlyExpense, 'id'>> as the edit form and the switch send it
MonthlyExpenseUpdates ==
  [isActive : BOOLEAN] \cup [dayOfMonth : ChargeDays]

\* { ...record, ...updatedData }
Merge(record, updatedData) ==
  [f \in (DOMAIN record) \cup (DOMAIN updatedData) |->
     IF f \in DOMAIN updatedData THEN updatedData[f] ELSE record[f]]

IdsOf(s) == {s[i].id : i \in DOMAIN s}

\* array.find(x => x.id === id): the matching records (none when not found)
Find(s, id) == LET HasId(x) == x.id = id IN Filter(s, HasId)

addMonthlyExpense(monthlyExpense) ==
  /\ Len(monthlyExpenses) < MaxMonthlyExpenses
  /\ Len(notifications) < MaxNotifications
  /\ Len(timers) < MaxTimers
  /\ monthlyExpenses' = Append(monthlyExpenses, WithId(monthlyExpense, nextId))
  /\ Notify(<< Draft("Nova Despesa Mensal", "info",
                     <<monthlyExpense.name, monthlyExpense.amount,
                       monthlyExpense.dayOfMonth>>) >>,
            nextId + 1,
            saveToStorage(localStorage, MONTHLY_EXPENSES, monthlyExpenses'))
  /\ timers' = Append(timers, [kind |-> "due", seen |-> Render])
  /\ DueDateEffect
  /\ nextId' = nextId + 2
  /\ lastOp' = NoOp
  /\ UNCHANGED persistenceVars
  /\ UNCHANGED <<transactions, categories, wishes, monthlyIncomes, shoppingList, today>>

updateMonthlyExpense(id, updatedData) ==
  LET found == Find(monthlyExpenses, id)
      drafts == IF found # << >>
                  THEN << Draft("Despesa Mensal Atualizada", "info", <<found[1].name>>) >>
                  ELSE << >>
  IN  /\ Len(notifications) + Len(drafts) <= MaxNotifications
      /\ Len(timers) < MaxTimers
      /\ monthlyExpenses' = [i \in DOMAIN monthlyExpenses |->
                               IF monthlyExpenses[i].id = id
                                 THEN Merge(monthlyExpenses[i], updatedData)
                                 ELSE monthlyExpenses[i]]
      /\ Notify(drafts, nextId,
                saveToStorage(localStorage, MONTHLY_EXPENSES, monthlyExpenses'))
      /\ timers' = Append(timers, [kind |-> "due", seen |-> Render])
      /\ DueDateEffect
      /\ nextId' = nextId + Len(drafts)
      /\ lastOp' = NoOp
      /\ UNCHANGED persistenceVars
      /\ UNCHANGED <<transactions, categories, wishes, monthlyIncomes, shoppingList, today>>

deleteMonthlyExpense(id) ==
  LET found == Find(monthlyExpenses, id)
      drafts == IF found # << >>
                  THEN << Draft("Despesa Mensal Excluida", "info", <<found[1].name>>) >>
                  ELSE << >>
      Keep(e) == e.id # id
  IN  /\ Len(notifications) + Len(drafts) <= MaxNotifications
      /\ monthlyExpenses' = Filter(monthlyExpenses, Keep)
      /\ Notify(drafts, nextId,
                saveToStorage(localStorage, MONTHLY_EXPENSES, monthlyExpenses'))
      /\ DueDateEffect
      /\ nextId' = nextId + Len(drafts)
      /\ lastOp' = NoOp
      /\ UNCHANGED persistenceVars
      /\ UNCHANGED <<transactions, categories, wishes, monthlyIncomes, shoppingList,
                     timers, today>>

checkMonthlyExpenseDueDates ==
  /\ RunCheck("checkMonthlyExpenseDueDates", Render,
              checkMonthlyExpenseDueDatesDrafts(monthlyExpenses, today))
  /\ UNCHANGED <<timers, dueTimer>>

\* setTimeout(() => checkMonthlyExpenseDueDates(), 200)
DueTimer ==
  \E i \in DOMAIN timers :
    /\ timers[i].kind = "due"
    /\ RunCheck("dueTimer", timers[i].seen,
                checkMonthlyExpenseDueDatesDrafts(timers[i].seen.monthlyExpenses, today))
    /\ timers' = SubSeq(timers, 1, i - 1) \o SubSeq(timers, i + 1, Len(timers))
    /\ UNCHANGED dueTimer

\* the effect's setTimeout(() => checkMonthlyExpenseDueDates(), 500)
DueEffectTimer ==
  /\ dueTimer # << >>
  /\ RunCheck("dueEffectTimer", dueTimer[1],
              checkMonthlyExpenseDueDatesDrafts(dueTimer[1].monthlyExpenses, today))
  /\ dueTimer' = << >>
  /\ UNCHANGED timers

\* deleteNotification(id), with the notifications save effect
deleteNotification(id) ==
  LET Keep(n) == n.id # id
  IN  /\ notifications' = Filter(notifications, Keep)
      /\ localStorage' = saveToStorage(localStorage, NOTIFICATIONS, notifications')
      /\ lastOp' = NoOp
      /\ UNCHANGED persistenceVars
      /\ UNCHANGED <<transactions, categories, wishes, monthlyIncomes, monthlyExpenses,
                     shoppingList, timers, dueTimer, today, nextId>>

\* notifications.filter(n => !n.isRead).length
getUnreadNotificationsCount(feed) ==
  LET Unread(n) == ~ n.isRead IN Len(Filter(feed, Unread))

\* ---- recurring incomes, categories and the shopping list of FinanceContext.tsx
addMonthlyIncome(monthlyIncome) ==
  /\ Len(notifications) < MaxNotifications
  /\ monthlyIncomes' = Append(monthlyIncomes, WithId(monthlyIncome, nextId))
  /\ Notify(<< Draft("Nova Receita Mensal", "success", <<monthlyIncome.name, monthlyIncome.amount, monthlyIncome.dayOfMonth>>) >>,
            nextId + 1,
            saveToStorage(localStorage, MONTHLY_INCOMES, monthlyIncomes'))
  /\ nextId' = nextId + 2
  /\ lastOp' = NoOp
  /\ UNCHANGED persistenceVars
  /\ UNCHANGED <<transactions, categories, wishes, monthlyExpenses,
                 shoppingList, timers, dueTimer, today>>

updateMonthlyIncome(id, updatedData) ==
  LET found == Find(monthlyIncomes, id)
      drafts == IF found # << >>
                  THEN << Draft("Receita Mensal Atualizada", "info", <<found[1].name>>) >>
                  ELSE << >>
  IN  /\ Len(notifications) + Len(drafts) <= MaxNotifications
      /\ monthlyIncomes' = [i \in DOMAIN monthlyIncomes |->
                       IF monthlyIncomes[i].id = id THEN Merge(monthlyIncomes[i], updatedData)
                       ELSE monthlyIncomes[i]]
      /\ Notify(drafts, nextId, saveToStorage(localStorage, MONTHLY_INCOMES, monthlyIncomes'))
      /\ nextId' = nextId + Len(drafts)
      /\ lastOp' = [op |-> "updateMonthlyIncome", from |-> Len(notifications), seen |-> [id |-> id]]
      /\ UNCHANGED persistenceVars
      /\ UNCHANGED <<transactions, categories, wishes, monthlyExpenses,
                     shoppingList, timers, dueTimer, today>>

deleteMonthlyIncome(id) ==
  LET found == Find(monthlyIncomes, id)
      drafts == IF found # << >>
                  THEN << Draft("Receita Mensal Excluida", "info", <<found[1].name>>) >>
                  ELSE << >>
      Keep(x) == x.id # id
  IN  /\ Len(notifications) + Len(drafts) <= MaxNotifications
      /\ monthlyIncomes' = Filter(monthlyIncomes, Keep)
      /\ Notify(drafts, nextId, saveToStorage(localStorage, MONTHLY_INCOMES, monthlyIncomes'))
      /\ nextId' = nextId + Len(drafts)
      /\ lastOp' = [op |-> "deleteMonthlyIncome", from |-> Len(notifications), seen |-> [id |-> id]]
      /\ UNCHANGED persistenceVars
      /\ UNCHANGED <<transactions, categories, wishes, monthlyExpenses,
                     shoppingList, timers, dueTimer, today>>

updateCategory(id, updatedData) ==
  LET found == Find(categories, id)
      drafts == IF found # << >>
                  THEN << Draft("Categoria Atualizada", "info", <<found[1].name>>) >>
                  ELSE << >>
  IN  /\ Len(notifications) + Len(drafts) <= MaxNotifications
      /\ categories' = [i \in DOMAIN categories |->
                       IF categories[i].id = id THEN Merge(categories[i], updatedData)
                       ELSE categories[i]]
      /\ Notify(drafts, nextId, saveToStorage(localStorage, CATEGORIES, categories'))
      /\ nextId' = nextId + Len(drafts)
      /\ lastOp' = [op |-> "updateCategory", from |-> Len(notifications), seen |-> [id |-> id]]
      /\ UNCHANGED persistenceVars
      /\ UNCHANGED <<transactions, wishes, monthlyIncomes, monthlyExpenses,
                     shoppingList, timers, dueTimer, today>>

deleteCategory(id) ==
  LET found == Find(categories, id)
      drafts == IF found # << >>
                  THEN << Draft("Categoria Excluida", "info", <<found[1].name>>) >>
                  ELSE << >>
      Keep(x) == x.id # id
  IN  /\ Len(notifications) + Len(drafts) <= MaxNotifications
      /\ categories' = Filter(categories, Keep)
      /\ Notify(drafts, nextId, saveToStorage(localStorage, CATEGORIES, categories'))
      /\ nextId' = nextId + Len(drafts)
      /\ lastOp' = [op |-> "deleteCategory", from |-> Len(notifications), seen |-> [id |-> id]]
      /\ UNCHANGED persistenceVars
      /\ UNCHANGED <<transactions, wishes, monthlyIncomes, monthlyExpenses,
                     shoppingList, timers, dueTimer, today>>

\* an add that stores the item without announcing it
addShoppingItemSilent(shoppingItem) ==
  /\ Len(notifications) < MaxNotifications
  /\ shoppingList' = Append(shoppingList, WithId(shoppingItem, nextId))
  /\ Notify(<< >>, nextId + 1, saveToStorage(localStorage, SHOPPING_LIST, shoppingList'))
  /\ nextId' = nextId + 2
  /\ lastOp' = NoOp
  /\ UNCHANGED persistenceVars
  /\ UNCHANGED <<transactions, categories, wishes, monthlyIncomes,
                 monthlyExpenses, timers, dueTimer, today>>

addShoppingItem(shoppingItem) ==
  /\ Len(notifications) < MaxNotifications
  /\ shoppingList' = Append(shoppingList, WithId(shoppingItem, nextId))
  /\ Notify(<< Draft("Item Adicionado a Lista", "info", <<shoppingItem.name>>) >>,
            nextId + 1,
            saveToStorage(localStorage, SHOPPING_LIST, shoppingList'))
  /\ nextId' = nextId + 2
  /\ lastOp' = NoOp
  /\ UNCHANGED persistenceVars
  /\ UNCHANGED <<transactions, categories, wishes, monthlyIncomes,
                 monthlyExpenses, timers, dueTimer, today>>

updateShoppingItem(id, updatedData) ==
  LET found == Find(shoppingList, id)
      drafts == IF found # << >>
                  THEN << Draft("Item Atualizado", "info", <<found[1].name>>) >>
                  ELSE << >>
  IN  /\ Len(notifications) + Len(drafts) <= MaxNotifications
      /\ shoppingList' = [i \in DOMAIN shoppingList |->
                       IF shoppingList[i].id = id THEN Merge(shoppingList[i], updatedData)
                       ELSE shoppingList[i]]
      /\ Notify(drafts, nextId, saveToStorage(localStorage, SHOPPING_LIST, shoppingList'))
      /\ nextId' = nextId + Len(drafts)
      /\ lastOp' = [op |-> "updateShoppingItem", from |-> Len(notifications), seen |-> [id |-> id]]
      /\ UNCHANGED persistenceVars
      /\ UNCHANGED <<transactions, categories, wishes, monthlyIncomes,
                     monthlyExpenses, timers, dueTimer, today>>

deleteShoppingItem(id) ==
  LET found == Find(shoppingList, id)
      drafts == IF found # << >>
                  THEN << Draft("Item Removido", "info", <<found[1].name>>) >>
                  ELSE << >>
      Keep(x) == x.id # id
  IN  /\ Len(notifications) + Len(drafts) <= MaxNotifications
      /\ shoppingList' = Filter(shoppingList, Keep)
      /\ Notify(drafts, nextId, saveToStorage(localStorage, SHOPPING_LIST, shoppingList'))
      /\ nextId' = nextId + Len(drafts)
      /\ lastOp' = [op |-> "deleteShoppingItem", from |-> Len(notifications), seen |-> [id |-> id]]
      /\ UNCHANGED persistenceVars
      /\ UNCHANGED <<transactions, categories, wishes, monthlyIncomes,
                     monthlyExpenses, timers, dueTimer, today>>

\* toggleShoppingItemPurchased(id) called from the current render, or (stale)
\* from the render the previous toggle was called from, before the provider
\* has rendered again: find and !item.isPurchased read the list of that render,
\* the functional setShoppingList works on the latest list
toggleShoppingItemPurchased(id, stale) ==
  LET closure == IF stale THEN lastOp.seen.shoppingList ELSE shoppingList
      found == Find(closure, id)
      newPurchasedState == ~ found[1].isPurchased
      drafts == IF found # << >>
                  THEN << Draft(IF newPurchasedState THEN "Item Comprado"
                                                     ELSE "Item Desmarcado",
                                IF newPurchasedState THEN "success" ELSE "info",
                                <<found[1].name>>) >>
                  ELSE << >>
  IN  /\ stale => lastOp.op = "toggleShoppingItemPurchased"
      /\ Len(notifications) + Len(drafts) <= MaxNotifications
      /\ shoppingList' = IF found = << >> THEN shoppingList
                         ELSE [i \in DOMAIN shoppingList |->
                                 IF shoppingList[i].id = id
                                   THEN [shoppingList[i] EXCEPT !.isPurchased = newPurchasedState]
                                   ELSE shoppingList[i]]
      /\ Notify(drafts, nextId, saveToStorage(localStorage, SHOPPING_LIST, shoppingList'))
      /\ nextId' = nextId + Len(drafts)
      /\ lastOp' = [op |-> "toggleShoppingItemPurchased", from |-> Len(notifications),
                    seen |-> [shoppingList |-> closure, id |-> id,
                              before |-> shoppingList]]
      /\ UNCHANGED persistenceVars
      /\ UNCHANGED <<transactions, categories, wishes, monthlyIncomes, monthlyExpenses,
                     timers, dueTimer, today>>

\* a bulk mark that stops after the first notification
markAllNotificationsAsReadFirstOnly ==
  /\ notifications' = [i \in DOMAIN notifications |->
                         IF i = 1 THEN [notifications[i] EXCEPT !.isRead = TRUE]
                         ELSE notifications[i]]
  /\ localStorage' = saveToStorage(localStorage, NOTIFICATIONS, notifications')
  /\ lastOp' = [op |-> "markAllNotificationsAsRead", from |-> Len(notifications),
                seen |-> Render]
  /\ UNCHANGED persistenceVars
  /\ UNCHANGED <<transactions, categories, wishes, monthlyIncomes, monthlyExpenses,
                 shoppingList, timers, dueTimer, today, nextId>>

\* setNotifications(prev => prev.map(n => ({ ...n, isRead: true })))
markAllNotificationsAsRead ==
  /\ notifications' = [i \in DOMAIN notifications |->
                         [notifications[i] EXCEPT !.isRead = TRUE]]
  /\ localStorage' = saveToStorage(localStorage, NOTIFICATIONS, notifications')
  /\ lastOp' = [op |-> "markAllNotificationsAsRead", from |-> Len(notifications),
                seen |-> Render]
  /\ UNCHANGED persistenceVars
  /\ UNCHANGED <<transactions, categories, wishes, monthlyIncomes, monthlyExpenses,
                 shoppingList, timers, dueTimer, today, nextId>>

\* ============================================================ firebase.ts
\* db: the Firestore client, or null when the configuration is missing or the
\* initialisation threw
NoDb == "null"
Firestore == "firestore"

\* COLLECTIONS of firebaseService: the Firestore collection of each entity,
\* named here by the storage key of the same entity
COLLECTIONS ==
  [k \in STORAGE_KEYS |->
     CASE k = TRANSACTIONS -> "transactions"
       [] k = MONTHLY_INCOMES -> "monthlyIncomes"
       [] k = MONTHLY_EXPENSES -> "monthlyExpenses"
       [] k = CATEGORIES -> "categories"
       [] k = WISHES -> "wishes"
       [] k = NOTIFICATIONS -> "notifications"
       [] OTHER -> "shoppingList"]

NoDocuments == [c \in {COLLECTIONS[k] : k \in STORAGE_KEYS} |-> << >>]

\* ============================================================ storage.ts
\* The value JavaScript reads from a field a record does not have.
Undefined == 0 - 9997

\* record[field] as JavaScript reads it
Field(r, f) == IF f \in DOMAIN r THEN r[f] ELSE Undefined

\* !income.dayOfMonth for a value parsed from JSON: undefined, null and 0
Falsy(x) == x \in {Undefined, Null, 0}

DefaultIncomeDay == 5
DefaultExpenseDay == 15

\* the migration giving the default day to every record
MigratedAll(items, day) ==
  [i \in DOMAIN items |-> Merge(items[i], [dayOfMonth |-> day])]

\* incomes.map(income => !income.dayOfMonth ? {...income, dayOfMonth: day} : income)
Migrated(items, day) ==
  [i \in DOMAIN items |->
     IF Falsy(Field(items[i], "dayOfMonth")) THEN Merge(items[i], [dayOfMonth |-> day])
     ELSE items[i]]

\* migrated.some((item, index) => item.dayOfMonth !== items[index]?.dayOfMonth)
hasChanges(items, migrated) ==
  \E i \in DOMAIN migrated : migrated[i].dayOfMonth # Field(items[i], "dayOfMonth")

\* the day a load function of storage.ts gives to records without one (0: none)
MigrationDay(key) ==
  CASE key = MONTHLY_INCOMES -> DefaultIncomeDay
    [] key = MONTHLY_EXPENSES -> DefaultExpenseDay
    [] OTHER -> 0

\* what the load function of `key` returns from the store ls
Loaded(ls, key) ==
  IF MigrationDay(key) = 0 THEN loadFromStorage(ls, key, << >>)
  ELSE Migrated(loadFromStorage(ls, key, << >>), MigrationDay(key))

\* the store the load function of `key` leaves behind: the migrated records
\* are written back when the migration changed one
AfterLoad(ls, key) ==
  IF MigrationDay(key) # 0 /\ hasChanges(loadFromStorage(ls, key, << >>), Loaded(ls, key))
    THEN saveToStorage(ls, key, Loaded(ls, key))
    ELSE ls

NoData == [f \in {} |-> 0]
NoCall == [fn |-> "none", kind |-> "none", key |-> "none", id |-> 0, data |-> NoData,
           thrown |-> << >>, outcome |-> "none", error |-> << >>, result |-> << >>,
           events |-> << >>, before |-> << >>]

\* saveTransactions ... saveShoppingList: saveToStorage(STORAGE_KEYS.X, data)
LocalStorage_save(key, data) ==
  /\ localStorage' = saveToStorage(localStorage, key, data)
  /\ saved' = [k \in (DOMAIN saved) \cup {key} |-> IF k = key THEN data ELSE saved[k]]
  /\ lastCall' = [NoCall EXCEPT !.fn = "LocalStorage.save", !.kind = "save", !.key = key,
                                !.outcome = "returned"]
  /\ UNCHANGED <<db, cloud, nextId, providerVars>>

\* loadTransactions ... loadShoppingList: loadFromStorage(STORAGE_KEYS.X, []),
\* with the dayOfMonth migration in the two recurring ones
LocalStorage_load(key) ==
  /\ localStorage' = AfterLoad(localStorage, key)
  /\ lastCall' = [NoCall EXCEPT !.fn = "LocalStorage.load", !.kind = "load", !.key = key,
                                !.outcome = "returned", !.result = Loaded(localStorage, key)]
  /\ UNCHANGED <<db, cloud, saved, nextId, providerVars>>

\* ===================================================== firebaseService
\* the module flag set when firebaseService is imported
isFirebaseAvailable == db # NoDb

\* number of records one run creates through the facade
MaxCreated == 1
\* ids below this one belong to records of earlier sessions
FirstFreshId == Cardinality(STORAGE_KEYS) + 1

\* ---- Firestore calls on the documents of the database
HasDoc(docs, key, id) == \E i \in DOMAIN docs[COLLECTIONS[key]] : docs[COLLECTIONS[key]][i].id = id

\* setDoc(doc(db, collection, record.id), record)
setDoc(docs, key, record) ==
  LET Other(d) == d.id # record.id
  IN  [docs EXCEPT ![COLLECTIONS[key]] = Append(Filter(docs[COLLECTIONS[key]], Other), record)]

\* updateDoc(doc(db, collection, id), data), for a document that exists
updateDoc(docs, key, id, data) ==
  LET old == docs[COLLECTIONS[key]]
  IN  [docs EXCEPT ![COLLECTIONS[key]] =
         [i \in DOMAIN old |-> IF old[i].id = id THEN Merge(old[i], data) ELSE old[i]]]

\* deleteDoc(doc(db, collection, id))
deleteDoc(docs, key, id) ==
  LET Other(d) == d.id # id
  IN  [docs EXCEPT ![COLLECTIONS[key]] = Filter(docs[COLLECTIONS[key]], Other)]

\* a read of the database that also brings in what local storage holds
getDocsReconciled(docs, key) ==
  docs[COLLECTIONS[key]] \o loadFromStorage(localStorage, key, << >>)

\* getDocs(collection(db, name)).docs.map(doc => doc.data())
getDocs(docs, key) == docs[COLLECTIONS[key]]

\* only a call made on a client can throw
CanThrow(throws) == throws => db # NoDb

\* the error a Firestore call throws
FirestoreError(call, key) == <<call, COLLECTIONS[key]>>

\* window.dispatchEvent(new CustomEvent('localStorageChange', { detail: { key } }))
dispatchStorageChangeEvent(key) == << [type |-> "localStorageChange", key |-> key] >>

\* a call that resolves whatever Firestore threw
SettleResolved(fn, kind, key, id, data, thrown, outcome, result, events) ==
  lastCall' = [fn |-> fn, kind |-> kind, key |-> key, id |-> id, data |-> data,
               thrown |-> thrown, outcome |-> "resolved", error |-> << >>,
               result |-> result, events |-> events, before |-> localStorage]

\* the call settles: what it was given, what Firestore threw, how it ended
Settle(fn, kind, key, id, data, thrown, outcome, result, events) ==
  lastCall' = [fn |-> fn, kind |-> kind, key |-> key, id |-> id, data |-> data,
               thrown |-> thrown, outcome |-> outcome,
               error |-> IF outcome = "rejected" THEN thrown[1] ELSE << >>,
               result |-> result, events |-> events, before |-> localStorage]

\* items.findIndex(x => x.id === id) !== -1
IndexFound(items, id) == \E i \in DOMAIN items : items[i].id = id

\* items[index] = { ...items[index], ...data } at the first index with that id
Replaced(items, id, data) ==
  LET index == CHOOSE i \in DOMAIN items :
                 items[i].id = id /\ \A j \in 1..(i - 1) : items[j].id # id
  IN  [i \in DOMAIN items |-> IF i = index THEN Merge(items[i], data) ELSE items[i]]

\* the fallback of the recurring add functions: load, push, save, dispatch
LocalAdd(ls, key, newRecord) ==
  saveToStorage(AfterLoad(ls, key), key, Append(Loaded(ls, key), newRecord))

\* a fallback that reads the collection and writes nothing back to it
LocalUpdateSkipped(ls, key, id, data) == AfterLoad(ls, key)

\* the fallback of the recurring update functions: save only when found
LocalUpdate(ls, key, id, data) ==
  IF IndexFound(Loaded(ls, key), id)
    THEN saveToStorage(AfterLoad(ls, key), key, Replaced(Loaded(ls, key), id, data))
    ELSE AfterLoad(ls, key)

\* the fallback of the recurring delete functions: filter and save
LocalDelete(ls, key, id) ==
  LET Other(x) == x.id # id
  IN  saveToStorage(AfterLoad(ls, key), key, Filter(Loaded(ls, key), Other))

\* add functions of the collections without a fallback
AddToCloud(fn, key, record, throws) ==
  /\ CanThrow(throws)
  /\ IF db = NoDb
       THEN /\ Settle(fn, "add", key, 0, record, << >>, "resolved", << >>, << >>)
            /\ UNCHANGED <<cloud, nextId>>
       ELSE /\ nextId < FirstFreshId + MaxCreated
            /\ nextId' = nextId + 1
            /\ IF throws
                 THEN /\ Settle(fn, "add", key, nextId, record,
                                << FirestoreError("setDoc", key) >>, "rejected", << >>, << >>)
                      /\ UNCHANGED cloud
                 ELSE /\ Settle(fn, "add", key, nextId, record, << >>, "resolved", << >>, << >>)
                      /\ cloud' = setDoc(cloud, key, WithId(record, nextId))
  /\ UNCHANGED <<localStorage, saved, providerVars>>

\* addMonthlyIncome / addMonthlyExpense
AddWithFallback(fn, key, record, throws) ==
  /\ CanThrow(throws)
  /\ nextId < FirstFreshId + MaxCreated
  /\ nextId' = nextId + 1
  /\ IF ~ isFirebaseAvailable \/ db = NoDb
       THEN /\ localStorage' = LocalAdd(localStorage, key, WithId(record, nextId))
            /\ Settle(fn, "add", key, nextId, record, << >>, "resolved", << >>,
                      dispatchStorageChangeEvent(key))
            /\ UNCHANGED cloud
       ELSE IF throws
         THEN /\ localStorage' = LocalAdd(localStorage, key, WithId(record, nextId))
              /\ Settle(fn, "add", key, nextId, record, << FirestoreError("setDoc", key) >>,
                        "resolved", << >>, dispatchStorageChangeEvent(key))
              /\ UNCHANGED cloud
         ELSE /\ cloud' = setDoc(cloud, key, WithId(record, nextId))
              /\ Settle(fn, "add", key, nextId, record, << >>, "resolved", << >>, << >>)
              /\ UNCHANGED localStorage
  /\ UNCHANGED <<saved, providerVars>>

\* update functions of the collections without a fallback; updateDoc throws
\* for a document that does not exist
UpdateInCloud(fn, key, id, data, throws) ==
  /\ CanThrow(throws)
  /\ IF db = NoDb
       THEN /\ Settle(fn, "update", key, id, data, << >>, "resolved", << >>, << >>)
            /\ UNCHANGED cloud
       ELSE IF throws \/ ~ HasDoc(cloud, key, id)
         THEN /\ Settle(fn, "update", key, id, data,
                        << FirestoreError("updateDoc", key) >>, "rejected", << >>, << >>)
              /\ UNCHANGED cloud
         ELSE /\ Settle(fn, "update", key, id, data, << >>, "resolved", << >>, << >>)
              /\ cloud' = updateDoc(cloud, key, id, data)
  /\ UNCHANGED <<localStorage, saved, nextId, providerVars>>

\* updateMonthlyIncome / updateMonthlyExpense
UpdateWithFallback(fn, key, id, data, throws) ==
  LET events == IF IndexFound(Loaded(localStorage, key), id)
                  THEN dispatchStorageChangeEvent(key) ELSE << >>
  IN  /\ CanThrow(throws)
      /\ IF ~ isFirebaseAvailable \/ db = NoDb
           THEN /\ localStorage' = LocalUpdate(localStorage, key, id, data)
                /\ Settle(fn, "update", key, id, data, << >>, "resolved", << >>, events)
                /\ UNCHANGED cloud
           ELSE IF throws \/ ~ HasDoc(cloud, key, id)
             THEN /\ localStorage' = LocalUpdate(localStorage, key, id, data)
                  /\ Settle(fn, "update", key, id, data,
                            << FirestoreError("updateDoc", key) >>, "resolved", << >>, events)
                  /\ UNCHANGED cloud
             ELSE /\ cloud' = updateDoc(cloud, key, id, data)
                  /\ Settle(fn, "update", key, id, data, << >>, "resolved", << >>, << >>)
                  /\ UNCHANGED localStorage
      /\ UNCHANGED <<saved, nextId, providerVars>>

\* delete functions of the collections without a fallback
DeleteInCloud(fn, key, id, throws) ==
  /\ CanThrow(throws)
  /\ IF db = NoDb
       THEN /\ Settle(fn, "delete", key, id, NoData, << >>, "resolved", << >>, << >>)
            /\ UNCHANGED cloud
       ELSE IF throws
         THEN /\ Settle(fn, "delete", key, id, NoData,
                        << FirestoreError("deleteDoc", key) >>, "rejected", << >>, << >>)
              /\ UNCHANGED cloud
         ELSE /\ Settle(fn, "delete", key, id, NoData, << >>, "resolved", << >>, << >>)
              /\ cloud' = deleteDoc(cloud, key, id)
  /\ UNCHANGED <<localStorage, saved, nextId, providerVars>>

\* deleteMonthlyIncome / deleteMonthlyExpense
DeleteWithFallback(fn, key, id, throws) ==
  /\ CanThrow(throws)
  /\ IF ~ isFirebaseAvailable \/ db = NoDb
       THEN /\ localStorage' = LocalDelete(localStorage, key, id)
            /\ Settle(fn, "delete", key, id, NoData, << >>, "resolved", << >>,
                      dispatchStorageChangeEvent(key))
            /\ UNCHANGED cloud
       ELSE IF throws
         THEN /\ localStorage' = LocalDelete(localStorage, key, id)
              /\ Settle(fn, "delete", key, id, NoData, << FirestoreError("deleteDoc", key) >>,
                        "resolved", << >>, dispatchStorageChangeEvent(key))
              /\ UNCHANGED cloud
         ELSE /\ cloud' = deleteDoc(cloud, key, id)
              /\ Settle(fn, "delete", key, id, NoData, << >>, "resolved", << >>, << >>)
              /\ UNCHANGED localStorage
  /\ UNCHANGED <<saved, nextId, providerVars>>

\* load functions of the collections without a fallback
LoadFromCloud(fn, key, throws) ==
  /\ CanThrow(throws)
  /\ IF db = NoDb
       THEN Settle(fn, "load", key, 0, NoData, << >>, "resolved", << >>, << >>)
       ELSE IF throws
         THEN Settle(fn, "load", key, 0, NoData, << FirestoreError("getDocs", key) >>,
                     "resolved", << >>, << >>)
         ELSE Settle(fn, "load", key, 0, NoData, << >>, "resolved", getDocs(cloud, key), << >>)
  /\ UNCHANGED <<cloud, localStorage, saved, nextId, providerVars>>

\* loadMonthlyIncomes / loadMonthlyExpenses
LoadWithFallback(fn, key, throws) ==
  /\ CanThrow(throws)
  /\ IF ~ isFirebaseAvailable \/ db = NoDb
       THEN /\ Settle(fn, "load", key, 0, NoData, << >>, "resolved",
                      Loaded(localStorage, key), << >>)
            /\ localStorage' = AfterLoad(localStorage, key)
       ELSE IF throws
         THEN /\ Settle(fn, "load", key, 0, NoData, << FirestoreError("getDocs", key) >>,
                        "resolved", Loaded(localStorage, key), << >>)
              /\ localStorage' = AfterLoad(localStorage, key)
         ELSE /\ Settle(fn, "load", key, 0, NoData, << >>, "resolved",
                        getDocs(cloud, key), << >>)
              /\ UNCHANGED localStorage
  /\ UNCHANGED <<cloud, saved, nextId, providerVars>>

\* ---- the exported functions, under the names FinanceContext imports them by
loadTransactions(throws) ==
  /\ LoadFromCloud("loadTransactions", TRANSACTIONS, throws)
  /\ UNCHANGED db
loadMonthlyIncomes(throws) ==
  /\ LoadWithFallback("loadMonthlyIncomes", MONTHLY_INCOMES, throws)
  /\ UNCHANGED db
loadMonthlyExpenses(throws) ==
  /\ LoadWithFallback("loadMonthlyExpenses", MONTHLY_EXPENSES, throws)
  /\ UNCHANGED db
loadCategories(throws) ==
  /\ LoadFromCloud("loadCategories", CATEGORIES, throws)
  /\ UNCHANGED db
loadWishes(throws) ==
  /\ LoadFromCloud("loadWishes", WISHES, throws)
  /\ UNCHANGED db
loadNotifications(throws) ==
  /\ LoadFromCloud("loadNotifications", NOTIFICATIONS, throws)
  /\ UNCHANGED db
loadShoppingList(throws) ==
  /\ LoadFromCloud("loadShoppingList", SHOPPING_LIST, throws)
  /\ UNCHANGED db

firebaseAddTransaction(transaction, throws) ==
  /\ AddToCloud("addTransaction", TRANSACTIONS, transaction, throws)
  /\ UNCHANGED db
firebaseAddMonthlyIncome(income, throws) ==
  /\ AddWithFallback("addMonthlyIncome", MONTHLY_INCOMES, income, throws)
  /\ UNCHANGED db
firebaseAddMonthlyExpense(expense, throws) ==
  /\ AddWithFallback("addMonthlyExpense", MONTHLY_EXPENSES, expense, throws)
  /\ UNCHANGED db
firebaseAddCategory(category, throws) ==
  /\ AddToCloud("addCategory", CATEGORIES, category, throws)
  /\ UNCHANGED db
firebaseAddWish(wish, throws) ==
  /\ AddToCloud("addWish", WISHES, wish, throws)
  /\ UNCHANGED db
firebaseAddNotification(notification, throws) ==
  /\ AddToCloud("addNotification", NOTIFICATIONS, notification, throws)
  /\ UNCHANGED db
firebaseAddShoppingItem(item, throws) ==
  /\ AddToCloud("addShoppingItem", SHOPPING_LIST, item, throws)
  /\ UNCHANGED db

firebaseUpdateMonthlyIncome(id, data, throws) ==
  /\ UpdateWithFallback("updateMonthlyIncome", MONTHLY_INCOMES, id, data, throws)
  /\ UNCHANGED db
firebaseUpdateMonthlyExpense(id, data, throws) ==
  /\ UpdateWithFallback("updateMonthlyExpense", MONTHLY_EXPENSES, id, data, throws)
  /\ UNCHANGED db
firebaseUpdateCategory(id, data, throws) ==
  /\ UpdateInCloud("updateCategory", CATEGORIES, id, data, throws)
  /\ UNCHANGED db
firebaseUpdateShoppingItem(id, data, throws) ==
  /\ UpdateInCloud("updateShoppingItem", SHOPPING_LIST, id, data, throws)
  /\ UNCHANGED db
firebaseMarkNotificationAsRead(id, throws) ==
  /\ UpdateInCloud("markNotificationAsRead", NOTIFICATIONS, id, [isRead |-> TRUE], throws)
  /\ UNCHANGED db

firebaseDeleteMonthlyIncome(id, throws) ==
  /\ DeleteWithFallback("deleteMonthlyIncome", MONTHLY_INCOMES, id, throws)
  /\ UNCHANGED db
firebaseDeleteMonthlyExpense(id, throws) ==
  /\ DeleteWithFallback("deleteMonthlyExpense", MONTHLY_EXPENSES, id, throws)
  /\ UNCHANGED db
firebaseDeleteCategory(id, throws) ==
  /\ DeleteInCloud("deleteCategory", CATEGORIES, id, throws)
  /\ UNCHANGED db
firebaseDeleteNotification(id, throws) ==
  /\ DeleteInCloud("deleteNotification", NOTIFICATIONS, id, throws)
  /\ UNCHANGED db
firebaseDeleteShoppingItem(id, throws) ==
  /\ DeleteInCloud("deleteShoppingItem", SHOPPING_LIST, id, throws)
  /\ UNCHANGED db

\* ============================== FinanceProvider on firebaseService
\* ids one run of the cloud-backed provider may generate
MaxProviderIds == 2
\* number of documents in the notifications collection up to which the rule
\* checks of the provider on the facade are followed
MaxFeed == 4

\* the onSnapshot listeners: each in-memory collection is set to its Firestore
\* collection when that collection changes; without a client nothing is
\* subscribed, and nothing else in the provider writes these collections
Snapshots ==
  LET Follow(current, key) ==
        IF db # NoDb /\ getDocs(cloud', key) # getDocs(cloud, key)
          THEN getDocs(cloud', key) ELSE current
  IN  /\ transactions' = Follow(transactions, TRANSACTIONS)
      /\ monthlyIncomes' = Follow(monthlyIncomes, MONTHLY_INCOMES)
      /\ monthlyExpenses' = Follow(monthlyExpenses, MONTHLY_EXPENSES)
      /\ categories' = Follow(categories, CATEGORIES)
      /\ wishes' = Follow(wishes, WISHES)
      /\ notifications' = Follow(notifications, NOTIFICATIONS)
      /\ shoppingList' = Follow(shoppingList, SHOPPING_LIST)

\* the try block taken to run to its end whatever was thrown
SucceedsAlways(domainThrows, drafts, notifyThrows) == TRUE

\* the try block ran to its end
Succeeds(domainThrows, drafts, notifyThrows) ==
  ~ domainThrows /\ (drafts = << >> \/ ~ notifyThrows)

\* try { await firebaseX(...); await addNotification(draft) } catch { throw }
\* for an entity without a fallback: newIds ids are generated by the facade
\* call, cloudAfter is the database once that call has succeeded
ProviderOp(fn, kind, key, id, data, newIds, cloudAfter, domainThrows, drafts, notifyThrows) ==
  LET used == newIds + (IF domainThrows THEN 0 ELSE Len(drafts))
      \* the Firestore call behind the facade function
      call == CASE kind = "add" -> "setDoc" [] kind = "update" -> "updateDoc"
                [] OTHER -> "deleteDoc"
  IN  /\ CanThrow(domainThrows)
      /\ CanThrow(notifyThrows)
      /\ IF db = NoDb
           THEN /\ Settle(fn, kind, key, id, data, << >>, "resolved", << >>, << >>)
                /\ UNCHANGED <<cloud, nextId>>
           ELSE /\ nextId + used <= FirstFreshId + MaxProviderIds
                /\ nextId' = nextId + used
                /\ IF domainThrows
                     THEN /\ Settle(fn, kind, key, id, data,
                                    << FirestoreError(call, key) >>, "rejected",
                                    << >>, << >>)
                          /\ UNCHANGED cloud
                     ELSE IF drafts # << >> /\ notifyThrows
                       THEN /\ Settle(fn, kind, key, id, data,
                                      << FirestoreError("setDoc", NOTIFICATIONS) >>,
                                      "rejected", << >>, << >>)
                            /\ cloud' = cloudAfter
                       ELSE /\ Settle(fn, kind, key, id, data, << >>, "resolved", << >>, << >>)
                            /\ cloud' = IF drafts # << >>
                                          THEN setDoc(cloudAfter, NOTIFICATIONS,
                                                      WithId(drafts[1], nextId + newIds))
                                          ELSE cloudAfter
      /\ Snapshots
      /\ lastOp' = NoOp
      /\ UNCHANGED <<localStorage, saved, db, today, dueTimer>>

\* const x = collection.find(c => c.id === id); if (x) addNotification(...)
DraftIfFound(items, id, title) ==
  IF Find(items, id) # << >> THEN << Draft(title, "info", << Find(items, id)[1].name >>) >>
  ELSE << >>

addTransactionAsync(transaction, domainThrows, notifyThrows) ==
  LET drafts == << Draft(IF transaction.type = "income" THEN "Receita Adicionada"
                                                        ELSE "Despesa Adicionada",
                         IF transaction.type = "income" THEN "success" ELSE "info",
                         <<transaction.amount, transaction.category>>) >>
  IN  /\ ProviderOp("FinanceProvider.addTransaction", "add", TRANSACTIONS, nextId, transaction,
                    1, setDoc(cloud, TRANSACTIONS, WithId(transaction, nextId)),
                    domainThrows, drafts, notifyThrows)
      /\ IF Succeeds(domainThrows, drafts, notifyThrows)
           THEN /\ Len(timers) < MaxTimers
                /\ timers' = Append(timers, [kind |-> IF transaction.type = "expense"
                                                        THEN "budget" ELSE "wish",
                                             seen |-> Render])
           ELSE UNCHANGED timers

addCategoryAsync(category, domainThrows, notifyThrows) ==
  /\ ProviderOp("FinanceProvider.addCategory", "add", CATEGORIES, nextId, category,
                1, setDoc(cloud, CATEGORIES, WithId(category, nextId)), domainThrows,
                << Draft("Nova Categoria Criada", "info",
                         <<category.name, category.maxBudget>>) >>, notifyThrows)
  /\ UNCHANGED timers

updateCategoryAsync(id, updatedData, domainThrows, notifyThrows) ==
  /\ ProviderOp("FinanceProvider.updateCategory", "update", CATEGORIES, id, updatedData,
                0, updateDoc(cloud, CATEGORIES, id, updatedData),
                domainThrows \/ (db # NoDb /\ ~ HasDoc(cloud, CATEGORIES, id)),
                DraftIfFound(categories, id, "Categoria Atualizada"), notifyThrows)
  /\ UNCHANGED timers

deleteCategoryAsync(id, domainThrows, notifyThrows) ==
  /\ ProviderOp("FinanceProvider.deleteCategory", "delete", CATEGORIES, id, NoData,
                0, deleteDoc(cloud, CATEGORIES, id), domainThrows,
                DraftIfFound(categories, id, "Categoria Excluida"), notifyThrows)
  /\ UNCHANGED timers

addWishAsync(wish, domainThrows, notifyThrows) ==
  /\ ProviderOp("FinanceProvider.addWish", "add", WISHES, nextId, wish,
                1, setDoc(cloud, WISHES, WithId(wish, nextId)), domainThrows,
                << Draft("Novo Desejo Adicionado", "info",
                         <<wish.name, wish.estimatedPrice>>) >>, notifyThrows)
  /\ UNCHANGED timers

addNotificationAsync(notification, domainThrows) ==
  /\ ProviderOp("FinanceProvider.addNotification", "add", NOTIFICATIONS, nextId, notification,
                1, setDoc(cloud, NOTIFICATIONS, WithId(notification, nextId)), domainThrows,
                << >>, FALSE)
  /\ UNCHANGED timers

deleteNotificationAsync(id, domainThrows) ==
  /\ ProviderOp("FinanceProvider.deleteNotification", "delete", NOTIFICATIONS, id, NoData,
                0, deleteDoc(cloud, NOTIFICATIONS, id), domainThrows, << >>, FALSE)
  /\ UNCHANGED timers

markNotificationAsReadAsync(id, domainThrows) ==
  /\ ProviderOp("FinanceProvider.markNotificationAsRead", "update", NOTIFICATIONS, id,
                [isRead |-> TRUE], 0, updateDoc(cloud, NOTIFICATIONS, id, [isRead |-> TRUE]),
                domainThrows \/ (db # NoDb /\ ~ HasDoc(cloud, NOTIFICATIONS, id)),
                << >>, FALSE)
  /\ UNCHANGED timers

\* the documents of `key` with the fields of data merged into those in ids
UpdatedAll(docs, key, ids, data) ==
  [docs EXCEPT ![COLLECTIONS[key]] =
     [i \in DOMAIN docs[COLLECTIONS[key]] |->
        IF docs[COLLECTIONS[key]][i].id \in ids
          THEN Merge(docs[COLLECTIONS[key]][i], data)
          ELSE docs[COLLECTIONS[key]][i]]]

\* await Promise.all(unread.map(n => firebaseMarkNotificationAsRead(n.id))):
\* every call is made; the calls in `failing` throw, as does a call for a
\* notification that has no document, and the first to throw rejects the whole
markAllNotificationsAsReadAsync(failing) ==
  LET Unread(n) == ~ n.isRead
      unread == IdsOf(Filter(notifications, Unread))
      thrown == {id \in unread : id \in failing \/ ~ HasDoc(cloud, NOTIFICATIONS, id)}
      errors == [i \in 1..Cardinality(thrown) |-> FirestoreError("updateDoc", NOTIFICATIONS)]
  IN  /\ failing \subseteq unread
      /\ failing # {} => db # NoDb
      /\ IF db = NoDb
           THEN /\ Settle("FinanceProvider.markAllNotificationsAsRead", "update", NOTIFICATIONS,
                          0, [isRead |-> TRUE], << >>, "resolved", << >>, << >>)
                /\ UNCHANGED cloud
           ELSE /\ Settle("FinanceProvider.markAllNotificationsAsRead", "update", NOTIFICATIONS,
                          0, [isRead |-> TRUE], errors,
                          IF thrown = {} THEN "resolved" ELSE "rejected", << >>, << >>)
                /\ cloud' = UpdatedAll(cloud, NOTIFICATIONS, unread \ thrown, [isRead |-> TRUE])
      /\ Snapshots
      /\ lastOp' = NoOp
      /\ UNCHANGED <<localStorage, saved, db, nextId, today, dueTimer, timers>>

addShoppingItemAsync(shoppingItem, domainThrows, notifyThrows) ==
  /\ ProviderOp("FinanceProvider.addShoppingItem", "add", SHOPPING_LIST, nextId, shoppingItem,
                1, setDoc(cloud, SHOPPING_LIST, WithId(shoppingItem, nextId)), domainThrows,
                << Draft("Item Adicionado a Lista", "info", << shoppingItem.name >>) >>,
                notifyThrows)
  /\ UNCHANGED timers

updateShoppingItemAsync(id, updatedData, domainThrows, notifyThrows) ==
  /\ ProviderOp("FinanceProvider.updateShoppingItem", "update", SHOPPING_LIST, id, updatedData,
                0, updateDoc(cloud, SHOPPING_LIST, id, updatedData),
                domainThrows \/ (db # NoDb /\ ~ HasDoc(cloud, SHOPPING_LIST, id)),
                DraftIfFound(shoppingList, id, "Item Atualizado"), notifyThrows)
  /\ UNCHANGED timers

deleteShoppingItemAsync(id, domainThrows, notifyThrows) ==
  /\ ProviderOp("FinanceProvider.deleteShoppingItem", "delete", SHOPPING_LIST, id, NoData,
                0, deleteDoc(cloud, SHOPPING_LIST, id), domainThrows,
                DraftIfFound(shoppingList, id, "Item Removido"), notifyThrows)
  /\ UNCHANGED timers

\* nothing is called when the item is not in memory
toggleShoppingItemPurchasedAsync(id, domainThrows, notifyThrows) ==
  LET item == Find(shoppingList, id)
      newPurchasedState == ~ item[1].isPurchased
  IN  IF item = << >>
        THEN /\ ~ domainThrows /\ ~ notifyThrows
             /\ Settle("FinanceProvider.toggleShoppingItemPurchased", "update", SHOPPING_LIST,
                       id, NoData, << >>, "resolved", << >>, << >>)
             /\ lastOp' = NoOp
             /\ UNCHANGED <<cloud, nextId, localStorage, saved, db, transactions, categories,
                            wishes, monthlyIncomes, monthlyExpenses, notifications,
                            shoppingList, timers, dueTimer, today>>
        ELSE /\ ProviderOp("FinanceProvider.toggleShoppingItemPurchased", "update",
                           SHOPPING_LIST, id, [isPurchased |-> newPurchasedState], 0,
                           updateDoc(cloud, SHOPPING_LIST, id,
                                     [isPurchased |-> newPurchasedState]),
                           domainThrows \/ (db # NoDb /\ ~ HasDoc(cloud, SHOPPING_LIST, id)),
                           << Draft(IF newPurchasedState THEN "Item Comprado"
                                                         ELSE "Item Desmarcado",
                                    IF newPurchasedState THEN "success" ELSE "info",
                                    << item[1].name >>) >>, notifyThrows)
             /\ UNCHANGED timers

\* A rule check run from a timer: each draft goes to addNotification, which
\* nobody awaits; the calls in `failing` throw and their rejections are lost.
RunCheckAsync(op, seen, drafts, failing) ==
  LET Kept[i \in 0..Len(drafts)] ==
        IF i = 0 THEN << >>
        ELSE IF i \in failing THEN Kept[i - 1] ELSE Append(Kept[i - 1], drafts[i])
      \* ids are numbered in the order the documents are stored
      written == WithIds(Kept[Len(drafts)], nextId)
  IN  /\ failing \subseteq DOMAIN drafts
      /\ failing # {} => db # NoDb
      /\ IF db = NoDb
           THEN UNCHANGED <<cloud, nextId>>
           ELSE /\ Len(drafts) <= MaxProviderIds
                /\ Len(getDocs(cloud, NOTIFICATIONS)) + Len(drafts) <= MaxFeed
                /\ nextId' = nextId + Len(written)
                /\ cloud' = [cloud EXCEPT ![COLLECTIONS[NOTIFICATIONS]] = @ \o written]
      /\ lastOp' = [op |-> op, from |-> Len(notifications), seen |-> seen]
      /\ lastCall' = NoCall
      /\ Snapshots
      /\ UNCHANGED <<localStorage, saved, db, today>>

BudgetTimerAsync ==
  \E i \in DOMAIN timers :
    \E failing \in SUBSET (1..MaxProviderIds) :
      /\ timers[i].kind = "budget"
      /\ RunCheckAsync("budgetTimer", timers[i].seen,
                       checkBudgetAlertsDrafts(timers[i].seen.categories,
                                               timers[i].seen.transactions)
                       \o checkCategoryBudgetAlertsDrafts(timers[i].seen.categories,
                                                          timers[i].seen.transactions),
                       failing)
      /\ timers' = SubSeq(timers, 1, i - 1) \o SubSeq(timers, i + 1, Len(timers))
      /\ UNCHANGED dueTimer

WishTimerAsync ==
  \E i \in DOMAIN timers :
    \E failing \in SUBSET (1..MaxProviderIds) :
      /\ timers[i].kind = "wish"
      /\ RunCheckAsync("wishTimer", timers[i].seen,
                       checkWishAchievementsDrafts(timers[i].seen.wishes,
                                                   timers[i].seen.transactions),
                       failing)
      /\ timers' = SubSeq(timers, 1, i - 1) \o SubSeq(timers, i + 1, Len(timers))
      /\ UNCHANGED dueTimer

\* ---- recurring incomes and expenses of the provider on the facade
\* try { await firebaseAddMonthlyX(record); await addNotification(draft) }
\* catch { throw }: the facade call never throws (a Firestore error sends the
\* record to local storage and raises the event, which no listener in the
\* provider receives); the notification write can.
RecurringAdd(fn, key, record, domainThrows, draft, notifyThrows) ==
  LET local == db = NoDb \/ domainThrows
      used == IF db = NoDb THEN 1 ELSE 2
      newRecord == WithId(record, nextId)
      domainError == IF domainThrows THEN << FirestoreError("setDoc", key) >> ELSE << >>
      notifyError == IF notifyThrows THEN << FirestoreError("setDoc", NOTIFICATIONS) >>
                                     ELSE << >>
      written == IF local THEN cloud ELSE setDoc(cloud, key, newRecord)
  IN  /\ CanThrow(domainThrows)
      /\ CanThrow(notifyThrows)
      /\ nextId + used <= FirstFreshId + MaxProviderIds
      /\ nextId' = nextId + used
      /\ localStorage' = IF local THEN LocalAdd(localStorage, key, newRecord)
                                  ELSE localStorage
      /\ cloud' = IF db = NoDb \/ notifyThrows THEN written
                  ELSE setDoc(written, NOTIFICATIONS, WithId(draft, nextId + 1))
      /\ lastCall' = [fn |-> fn, kind |-> "add", key |-> key, id |-> nextId,
                      data |-> record, thrown |-> domainError \o notifyError,
                      outcome |-> IF notifyThrows THEN "rejected" ELSE "resolved",
                      error |-> IF notifyThrows THEN notifyError[1] ELSE << >>,
                      result |-> << >>,
                      events |-> IF local THEN dispatchStorageChangeEvent(key) ELSE << >>,
                      before |-> localStorage]
      /\ Snapshots
      /\ IF monthlyExpenses' # monthlyExpenses THEN DueDateEffect ELSE UNCHANGED dueTimer
      /\ lastOp' = NoOp
      /\ UNCHANGED <<saved, db, today>>

addMonthlyIncomeAsync(monthlyIncome, domainThrows, notifyThrows) ==
  /\ RecurringAdd("FinanceProvider.addMonthlyIncome", MONTHLY_INCOMES, monthlyIncome,
                  domainThrows,
                  Draft("Nova Receita Mensal", "success",
                        <<monthlyIncome.name, monthlyIncome.amount,
                          monthlyIncome.dayOfMonth>>),
                  notifyThrows)
  /\ UNCHANGED timers

addMonthlyExpenseAsync(monthlyExpense, domainThrows, notifyThrows) ==
  /\ RecurringAdd("FinanceProvider.addMonthlyExpense", MONTHLY_EXPENSES, monthlyExpense,
                  domainThrows,
                  Draft("Nova Despesa Mensal", "info",
                        <<monthlyExpense.name, monthlyExpense.amount,
                          monthlyExpense.dayOfMonth>>),
                  notifyThrows)
  /\ IF notifyThrows
       THEN UNCHANGED timers
       ELSE /\ Len(timers) < MaxTimers
            /\ timers' = Append(timers, [kind |-> "due", seen |-> Render])

\* setTimeout(() => checkMonthlyExpenseDueDates(), 200)
DueTimerAsync ==
  \E i \in DOMAIN timers :
    \E failing \in SUBSET (1..MaxProviderIds) :
      /\ timers[i].kind = "due"
      /\ RunCheckAsync("dueTimer", timers[i].seen,
                       checkMonthlyExpenseDueDatesDrafts(timers[i].seen.monthlyExpenses,
                                                         today),
                       failing)
      /\ timers' = SubSeq(timers, 1, i - 1) \o SubSeq(timers, i + 1, Len(timers))
      /\ UNCHANGED dueTimer

\* the effect's setTimeout(() => checkMonthlyExpenseDueDates(), 500)
DueEffectTimerAsync ==
  \E failing \in SUBSET (1..MaxProviderIds) :
    /\ dueTimer # << >>
    /\ RunCheckAsync("dueEffectTimer", dueTimer[1],
                     checkMonthlyExpenseDueDatesDrafts(dueTimer[1].monthlyExpenses, today),
                     failing)
    /\ dueTimer' = << >>
    /\ UNCHANGED timers

\* The mount effects: loadData awaits the seven load functions of the facade
\* and sets the seven collections; the load functions catch their own errors,
\* so loadData never fails. Nothing is written to the database. `throws`: the
\* reads fail (the database cannot be reached).
loadData(throws) ==
  LET FromLocal(key) == IF key \in {MONTHLY_INCOMES, MONTHLY_EXPENSES}
                          THEN Loaded(localStorage, key) ELSE << >>
      Data(key) == IF db = NoDb \/ throws THEN FromLocal(key) ELSE getDocs(cloud, key)
  IN  /\ CanThrow(throws)
      /\ transactions' = Data(TRANSACTIONS)
      /\ monthlyIncomes' = Data(MONTHLY_INCOMES)
      /\ monthlyExpenses' = Data(MONTHLY_EXPENSES)
      /\ categories' = Data(CATEGORIES)
      /\ wishes' = Data(WISHES)
      /\ notifications' = Data(NOTIFICATIONS)
      /\ shoppingList' = Data(SHOPPING_LIST)
      /\ localStorage' = IF db = NoDb \/ throws
                           THEN AfterLoad(AfterLoad(localStorage, MONTHLY_INCOMES),
                                          MONTHLY_EXPENSES)
                           ELSE localStorage
      /\ lastCall' = [NoCall EXCEPT !.fn = "FinanceProvider.loadData", !.kind = "mount",
                                    !.thrown = IF throws
                                                 THEN << FirestoreError("getDocs",
                                                                        TRANSACTIONS) >>
                                                 ELSE << >>,
                                    !.outcome = "resolved", !.before = localStorage]
      /\ DueDateEffect
      /\ lastOp' = NoOp
      /\ UNCHANGED <<cloud, saved, db, today, nextId, timers>>

\* ------------------------------------------------------------ start states
\* The provider once its mount effects have settled: the collections found in
\* local storage are in memory and every key holds its collection.
AssignIds(inputs, base) == [i \in 1..Len(inputs) |-> WithId(inputs[i], base + i - 1)]

Mounted(txs, cats, ws, mes, now) ==
  /\ transactions = AssignIds(txs, 1)
  /\ categories = AssignIds(cats, 1 + Len(txs))
  /\ wishes = AssignIds(ws, 1 + Len(txs) + Len(cats))
  /\ monthlyExpenses = AssignIds(mes, 1 + Len(txs) + Len(cats) + Len(ws))
  /\ monthlyIncomes = << >>
  /\ notifications = << >>
  /\ shoppingList = << >>
  /\ timers = << >>
  /\ dueTimer = IF Len(mes) > 0
                  THEN << [transactions |-> transactions, categories |-> categories,
                           wishes |-> wishes, monthlyExpenses |-> monthlyExpenses] >>
                  ELSE << >>
  /\ today = now
  /\ nextId = 1 + Len(txs) + Len(cats) + Len(ws) + Len(mes)
  /\ lastOp = NoOp
  /\ db = NoDb
  /\ cloud = NoDocuments
  /\ lastCall = NoCall
  /\ saved = << >>
  /\ localStorage = [k \in STORAGE_KEYS |->
                       CASE k = TRANSACTIONS -> transactions
                         [] k = CATEGORIES -> categories
                         [] k = WISHES -> wishes
                         [] k = MONTHLY_EXPENSES -> monthlyExpenses
                         [] OTHER -> << >>]

FirstOfMonth == [day |-> 1, monthLen |-> 31, hour |-> 0]
Dates == {[day |-> d, monthLen |-> len, hour |-> h] :
            d \in 1..31, len \in MonthLengths, h \in Hours}

\* ---- sample data
\* one record of each entity, as an earlier session left it
SampleTransaction == [id |-> 1, type |-> "expense", category |-> "Food", amount |-> 125]
SampleMonthlyIncome ==
  [id |-> 2, name |-> "Salary", amount |-> 500, dayOfMonth |-> 10, isActive |-> TRUE]
SampleMonthlyExpense ==
  [id |-> 3, name |-> "Netflix", amount |-> 45, dayOfMonth |-> 10, isActive |-> TRUE]
SampleCategory == [id |-> 4, name |-> "Food", budget |-> 0, maxBudget |-> 500]
SampleWish == [id |-> 5, name |-> "Bike", estimatedPrice |-> 375, status |-> "pending"]
SampleNotification ==
  [id |-> 6, title |-> "Nova Categoria Criada", message |-> <<"Food", 500>>,
   type |-> "info", timestamp |-> FirstOfMonth, isRead |-> FALSE]
SampleShoppingItem == [id |-> 7, name |-> "Milk", price |-> 5, isPurchased |-> FALSE]

Sample ==
  [k \in STORAGE_KEYS |->
     CASE k = TRANSACTIONS -> SampleTransaction
       [] k = MONTHLY_INCOMES -> SampleMonthlyIncome
       [] k = MONTHLY_EXPENSES -> SampleMonthlyExpense
       [] k = CATEGORIES -> SampleCategory
       [] k = WISHES -> SampleWish
       [] k = NOTIFICATIONS -> SampleNotification
       [] OTHER -> SampleShoppingItem]

\* Omit<T, 'id'>: what the forms hand to the add functions
WithoutField(r, field) == [f \in (DOMAIN r) \ {field} |-> r[f]]
WithoutId(r) == WithoutField(r, "id")

\* Partial<Omit<T, 'id'>>: what the edit forms and switches hand to update
Update ==
  [k \in {MONTHLY_INCOMES, MONTHLY_EXPENSES, CATEGORIES, SHOPPING_LIST} |->
     CASE k = MONTHLY_INCOMES -> [amount |-> 600]
       [] k = MONTHLY_EXPENSES -> [isActive |-> FALSE]
       [] k = CATEGORIES -> [maxBudget |-> 750]
       [] OTHER -> [isPurchased |-> TRUE]]

\* a store holding one record under every key, left by the local-storage provider
SeededStore == [k \in STORAGE_KEYS |-> << Sample[k] >>]

\* ---- the fallback store on its own
\* Collections as an earlier session or a caller may hand them to the store:
\* well-formed records, a recurring record from before dayOfMonth existed,
\* one with day 0, and a transaction whose amount is not a number.
Stored ==
  [k \in STORAGE_KEYS |->
     CASE k = TRANSACTIONS ->
            {<< >>, << SampleTransaction >>,
             << [SampleTransaction EXCEPT !.amount = NaN] >>}
       [] k = MONTHLY_INCOMES ->
            {<< >>, << SampleMonthlyIncome >>,
             << WithoutField(SampleMonthlyIncome, "dayOfMonth") >>,
             << [SampleMonthlyIncome EXCEPT !.dayOfMonth = 0] >>}
       [] k = MONTHLY_EXPENSES ->
            {<< >>, << SampleMonthlyExpense >>,
             << WithoutField(SampleMonthlyExpense, "dayOfMonth"),
                [id |-> 8, name |-> "Netflix", amount |-> 45, dayOfMonth |-> 31,
                 isActive |-> FALSE] >>}
       [] OTHER -> {<< >>, << Sample[k] >>}]

\* the page has just loaded: nothing is mounted, the store has no key yet
Unmounted ==
  /\ transactions = << >> /\ categories = << >> /\ wishes = << >>
  /\ monthlyIncomes = << >> /\ monthlyExpenses = << >>
  /\ notifications = << >> /\ shoppingList = << >>
  /\ timers = << >> /\ dueTimer = << >>
  /\ today = FirstOfMonth
  /\ lastOp = NoOp

InitStorage ==
  /\ Unmounted
  /\ nextId = 1
  /\ db = NoDb
  /\ cloud = NoDocuments
  /\ lastCall = NoCall
  /\ saved = << >>
  /\ localStorage = << >>

NextStorage ==
  \/ \E key \in STORAGE_KEYS : \E data \in Stored[key] : LocalStorage_save(key, data)
  \/ \E key \in STORAGE_KEYS : LocalStorage_load(key)

SpecStorage == InitStorage /\ [][NextStorage]_vars

\* ---- the persistence facade on its own
\* the ids a caller can know for an entity: those of the records in either
\* backend, and one (0) that no record has
KnownIds(key) ==
  IdsOf(getDocs(cloud, key)) \cup IdsOf(loadFromStorage(localStorage, key, << >>)) \cup {0}

InitFacade ==
  /\ Unmounted
  /\ nextId = FirstFreshId
  /\ db \in {NoDb, Firestore}
  /\ cloud = NoDocuments
  /\ lastCall = NoCall
  /\ saved = << >>
  /\ localStorage \in {<< >>, SeededStore}

Loads ==
  \E throws \in BOOLEAN :
    \/ loadTransactions(throws)
    \/ loadMonthlyIncomes(throws)
    \/ loadMonthlyExpenses(throws)
    \/ loadCategories(throws)
    \/ loadWishes(throws)
    \/ loadNotifications(throws)
    \/ loadShoppingList(throws)

Adds ==
  \E throws \in BOOLEAN :
    \/ firebaseAddTransaction(WithoutId(SampleTransaction), throws)
    \/ firebaseAddMonthlyIncome(WithoutId(SampleMonthlyIncome), throws)
    \/ firebaseAddMonthlyExpense(WithoutId(SampleMonthlyExpense), throws)
    \/ firebaseAddCategory(WithoutId(SampleCategory), throws)
    \/ firebaseAddWish(WithoutId(SampleWish), throws)
    \/ firebaseAddNotification(WithoutId(SampleNotification), throws)
    \/ firebaseAddShoppingItem(WithoutId(SampleShoppingItem), throws)

Updates ==
  \E throws \in BOOLEAN :
    \/ \E id \in KnownIds(MONTHLY_INCOMES) :
         firebaseUpdateMonthlyIncome(id, Update[MONTHLY_INCOMES], throws)
    \/ \E id \in KnownIds(MONTHLY_EXPENSES) :
         firebaseUpdateMonthlyExpense(id, Update[MONTHLY_EXPENSES], throws)
    \/ \E id \in KnownIds(CATEGORIES) :
         firebaseUpdateCategory(id, Update[CATEGORIES], throws)
    \/ \E id \in KnownIds(SHOPPING_LIST) :
         firebaseUpdateShoppingItem(id, Update[SHOPPING_LIST], throws)
    \/ \E id \in KnownIds(NOTIFICATIONS) : firebaseMarkNotificationAsRead(id, throws)

Deletes ==
  \E throws \in BOOLEAN :
    \/ \E id \in KnownIds(MONTHLY_INCOMES) : firebaseDeleteMonthlyIncome(id, throws)
    \/ \E id \in KnownIds(MONTHLY_EXPENSES) : firebaseDeleteMonthlyExpense(id, throws)
    \/ \E id \in KnownIds(CATEGORIES) : firebaseDeleteCategory(id, throws)
    \/ \E id \in KnownIds(NOTIFICATIONS) : firebaseDeleteNotification(id, throws)
    \/ \E id \in KnownIds(SHOPPING_LIST) : firebaseDeleteShoppingItem(id, throws)

NextFacade == Loads \/ Adds \/ Updates \/ Deletes

SpecFacade == InitFacade /\ [][NextFacade]_vars

\* ---- the provider on the persistence facade

\* a database holding one document in every collection
SeededCloud ==
  [c \in DOMAIN NoDocuments |-> << Sample[CHOOSE k \in STORAGE_KEYS : COLLECTIONS[k] = c] >>]

\* The provider once loadData, the subscriptions and the due-date check of the
\* first of the month have settled: with a client the collections are those of
\* the database, without one the recurring collections are those of local
\* storage and the other ones are empty.
InitProvider ==
  /\ db \in {NoDb, Firestore}
  /\ cloud = IF db = NoDb THEN NoDocuments ELSE SeededCloud
  /\ localStorage = SeededStore
  /\ transactions = getDocs(cloud, TRANSACTIONS)
  /\ monthlyIncomes = IF db = NoDb THEN Loaded(localStorage, MONTHLY_INCOMES)
                                   ELSE getDocs(cloud, MONTHLY_INCOMES)
  /\ monthlyExpenses = IF db = NoDb THEN Loaded(localStorage, MONTHLY_EXPENSES)
                                    ELSE getDocs(cloud, MONTHLY_EXPENSES)
  /\ categories = getDocs(cloud, CATEGORIES)
  /\ wishes = getDocs(cloud, WISHES)
  /\ notifications = getDocs(cloud, NOTIFICATIONS)
  /\ shoppingList = getDocs(cloud, SHOPPING_LIST)
  /\ timers = << >>
  /\ dueTimer = << >>
  /\ today = FirstOfMonth
  /\ nextId = FirstFreshId
  /\ lastOp = NoOp
  /\ lastCall = NoCall
  /\ saved = << >>

NextProvider ==
  \/ \E domainThrows, notifyThrows \in BOOLEAN :
       \/ addTransactionAsync(WithoutId(SampleTransaction), domainThrows, notifyThrows)
       \/ addTransactionAsync([type |-> "income", category |-> "Salary", amount |-> 500], domainThrows, notifyThrows)
       \/ addCategoryAsync(WithoutId(SampleCategory), domainThrows, notifyThrows)
       \/ addWishAsync(WithoutId(SampleWish), domainThrows, notifyThrows)
       \/ addShoppingItemAsync(WithoutId(SampleShoppingItem), domainThrows, notifyThrows)
       \/ \E id \in KnownIds(CATEGORIES) :
            \/ updateCategoryAsync(id, Update[CATEGORIES], domainThrows, notifyThrows)
            \/ deleteCategoryAsync(id, domainThrows, notifyThrows)
       \/ \E id \in KnownIds(SHOPPING_LIST) :
            \/ updateShoppingItemAsync(id, Update[SHOPPING_LIST], domainThrows, notifyThrows)
            \/ deleteShoppingItemAsync(id, domainThrows, notifyThrows)
            \/ toggleShoppingItemPurchasedAsync(id, domainThrows, notifyThrows)
  \/ \E domainThrows \in BOOLEAN :
       \/ addNotificationAsync(WithoutId(SampleNotification), domainThrows)
       \/ \E id \in KnownIds(NOTIFICATIONS) :
            \/ deleteNotificationAsync(id, domainThrows)
            \/ markNotificationAsReadAsync(id, domainThrows)
  \/ \E failing \in SUBSET IdsOf(notifications) : markAllNotificationsAsReadAsync(failing)
  \/ BudgetTimerAsync
  \/ WishTimerAsync

SpecProvider == InitProvider /\ [][NextProvider]_vars

\* ---- the provider from its first render: startup and the recurring collections
\* The page has just loaded: what an earlier session left in local storage
\* and, with a client, in the database.
InitStartup ==
  /\ Unmounted
  /\ db \in {NoDb, Firestore}
  /\ cloud \in IF db = NoDb THEN {NoDocuments} ELSE {NoDocuments, SeededCloud}
  /\ localStorage \in {<< >>, SeededStore}
  /\ nextId = FirstFreshId
  /\ lastCall = NoCall
  /\ saved = << >>

NextStartup ==
  \/ \E throws \in BOOLEAN : loadData(throws)
  \/ \E domainThrows, notifyThrows \in BOOLEAN :
       \/ addMonthlyIncomeAsync(WithoutId(SampleMonthlyIncome), domainThrows, notifyThrows)
       \/ addMonthlyExpenseAsync([WithoutId(SampleMonthlyExpense) EXCEPT !.dayOfMonth = 8],
                                 domainThrows, notifyThrows)
  \/ DueTimerAsync
  \/ DueEffectTimerAsync

SpecStartup == InitStartup /\ [][NextStartup]_vars

\* ---- the life cycle of records in the local-storage provider
\* amounts a caller can pass to the store, which does not validate them: what
\* TransactionForm sends for "125" and for "-50" (parseFloat, no check)
PassedAmounts == {125, 0 - 50}
\* number of ids generated in one run of the life cycle
MaxLifecycleIds == 5

InitLifecycle ==
  \E mes \in SeqsUpTo({WithoutId(SampleMonthlyExpense)}, 1) :
    Mounted(<< >>, << >>, << >>, mes, FirstOfMonth)

\* the run goes on while ids are left
IdsLeft == nextId <= MaxLifecycleIds

NextLifecycle ==
  \/ \E amount \in PassedAmounts :
       IdsLeft /\ addTransaction([type |-> "expense", category |-> "Food", amount |-> amount])
  \/ IdsLeft /\ addCategory(WithoutId(SampleCategory))
  \/ \E monthlyExpense \in MonthlyExpenseInputs :
       IdsLeft /\ addMonthlyExpense(monthlyExpense)
  \/ \E id \in IdsOf(monthlyExpenses) \cup {0} : \E updatedData \in MonthlyExpenseUpdates :
       IdsLeft /\ updateMonthlyExpense(id, updatedData)
  \/ \E id \in IdsOf(monthlyExpenses) \cup {0} : IdsLeft /\ deleteMonthlyExpense(id)
  \/ IdsLeft /\ BudgetTimer
  \/ IdsLeft /\ DueTimer
  \/ IdsLeft /\ DueEffectTimer
  \/ \E id \in IdsOf(notifications) : deleteNotification(id)

SpecLifecycle == InitLifecycle /\ [][NextLifecycle]_vars

\* ---- the operations of the local-storage provider on every collection
\* number of ids generated in one run of the store
MaxStoreIds == 5

InitStore == Mounted(<< >>, << >>, << >>, << >>, FirstOfMonth)

\* the run goes on while ids are left
StoreIdsLeft == nextId <= MaxStoreIds

\* Every add, the updates and deletes of recurring incomes, categories and
\* shopping items called with the id of a record or with an id that no record
\* has, the toggle from the current or from the previous render, and the
\* operations on the feed.
NextStore ==
  \/ StoreIdsLeft /\ addTransaction(WithoutId(SampleTransaction))
  \/ StoreIdsLeft /\ addMonthlyIncome(WithoutId(SampleMonthlyIncome))
  \/ StoreIdsLeft /\ addMonthlyExpense(WithoutId(SampleMonthlyExpense))
  \/ StoreIdsLeft /\ addCategory(WithoutId(SampleCategory))
  \/ StoreIdsLeft /\ addWish(WithoutId(SampleWish))
  \/ StoreIdsLeft /\ addShoppingItem(WithoutId(SampleShoppingItem))
  \/ \E id \in IdsOf(monthlyIncomes) \cup {0} :
       StoreIdsLeft /\ updateMonthlyIncome(id, Update[MONTHLY_INCOMES])
  \/ \E id \in IdsOf(monthlyIncomes) \cup {0} : StoreIdsLeft /\ deleteMonthlyIncome(id)
  \/ \E id \in IdsOf(categories) \cup {0} :
       StoreIdsLeft /\ updateCategory(id, Update[CATEGORIES])
  \/ \E id \in IdsOf(categories) \cup {0} : StoreIdsLeft /\ deleteCategory(id)
  \/ \E id \in IdsOf(shoppingList) \cup {0} :
       StoreIdsLeft /\ updateShoppingItem(id, Update[SHOPPING_LIST])
  \/ \E id \in IdsOf(shoppingList) \cup {0} : StoreIdsLeft /\ deleteShoppingItem(id)
  \/ \E id \in IdsOf(shoppingList) \cup {0} : \E stale \in BOOLEAN :
       StoreIdsLeft /\ toggleShoppingItemPurchased(id, stale)
  \/ markAllNotificationsAsRead
  \/ \E id \in IdsOf(notifications) : deleteNotification(id)
  \/ StoreIdsLeft /\ BudgetTimer
  \/ StoreIdsLeft /\ DueTimer
  \/ StoreIdsLeft /\ DueEffectTimer

SpecStore == InitStore /\ [][NextStore]_vars

\* ---- mounting the local-storage provider
\* how many times the mount effects run before the provider renders again
\* (twice under React's strict mode)
MaxMountRuns == 2

\* the seven save effects, run with the collections of a render
SaveEffects(ls, render) ==
  LET s1 == saveToStorage(ls, TRANSACTIONS, render.transactions)
      s2 == saveToStorage(s1, MONTHLY_INCOMES, render.monthlyIncomes)
      s3 == saveToStorage(s2, MONTHLY_EXPENSES, render.monthlyExpenses)
      s4 == saveToStorage(s3, CATEGORIES, render.categories)
      s5 == saveToStorage(s4, WISHES, render.wishes)
      s6 == saveToStorage(s5, NOTIFICATIONS, render.notifications)
  IN  saveToStorage(s6, SHOPPING_LIST, render.shoppingList)

\* The effects of the first render, in the order of their declaration: the
\* load effect reads every key and queues the seven state updates, then the
\* save effects write the collections of this render, which are still empty.
MountEffects ==
  LET afterLoad == AfterLoad(AfterLoad(localStorage, MONTHLY_INCOMES), MONTHLY_EXPENSES)
      loaded == [transactions |-> loadFromStorage(localStorage, TRANSACTIONS, << >>),
                 monthlyIncomes |-> Loaded(localStorage, MONTHLY_INCOMES),
                 monthlyExpenses |-> Loaded(localStorage, MONTHLY_EXPENSES),
                 categories |-> loadFromStorage(localStorage, CATEGORIES, << >>),
                 wishes |-> loadFromStorage(localStorage, WISHES, << >>),
                 notifications |-> loadFromStorage(localStorage, NOTIFICATIONS, << >>),
                 shoppingList |-> loadFromStorage(localStorage, SHOPPING_LIST, << >>)]
      current == [transactions |-> transactions, monthlyIncomes |-> monthlyIncomes,
                  monthlyExpenses |-> monthlyExpenses, categories |-> categories,
                  wishes |-> wishes, notifications |-> notifications,
                  shoppingList |-> shoppingList]
  IN  /\ lastCall.kind # "settled"
      /\ Len(timers) < MaxMountRuns
      /\ timers' = Append(timers, [kind |-> "setState", seen |-> loaded])
      /\ localStorage' = SaveEffects(afterLoad, current)
      /\ lastCall' = [NoCall EXCEPT !.fn = "FinanceProvider.mount", !.kind = "mount",
                                    !.outcome = "resolved",
                                    !.before = IF lastCall.kind = "mount"
                                                 THEN lastCall.before ELSE localStorage]
      /\ UNCHANGED <<transactions, categories, wishes, monthlyIncomes, monthlyExpenses,
                     notifications, shoppingList, dueTimer, today, nextId, lastOp,
                     db, cloud, saved>>

\* The render that applies the queued state updates (the last one queued for a
\* collection wins), followed by its save effects and the due-date effect.
Rerender ==
  /\ timers # << >>
  /\ \A i \in DOMAIN timers : timers[i].kind = "setState"
  /\ LET render == timers[Len(timers)].seen
     IN  /\ transactions' = render.transactions
         /\ monthlyIncomes' = render.monthlyIncomes
         /\ monthlyExpenses' = render.monthlyExpenses
         /\ categories' = render.categories
         /\ wishes' = render.wishes
         /\ notifications' = render.notifications
         /\ shoppingList' = render.shoppingList
         /\ localStorage' = SaveEffects(localStorage, render)
  /\ timers' = << >>
  /\ DueDateEffect
  /\ lastCall' = [lastCall EXCEPT !.kind = "settled"]
  /\ UNCHANGED <<today, nextId, lastOp, db, cloud, saved>>

\* local storage as earlier sessions may have left it: under each key nothing
\* or one record
InitMount ==
  /\ Unmounted
  /\ db = NoDb
  /\ cloud = NoDocuments
  /\ nextId = FirstFreshId
  /\ lastCall = NoCall
  /\ saved = << >>
  /\ \E keys \in SUBSET STORAGE_KEYS : localStorage = [k \in keys |-> << Sample[k] >>]

NextMount == MountEffects \/ Rerender

SpecMount == InitMount /\ [][NextMount]_vars

\* ---- budget rules
InitBudget ==
  \E txs \in SeqsUpTo(TransactionInputs, MaxTransactions),
     cats \in SeqsUpTo(CategoryInputs, MaxCategories) :
    Mounted(txs, cats, << >>, << >>, FirstOfMonth)

NextBudget ==
  \/ \E transaction \in TransactionInputs : addTransaction(transaction)
  \/ \E category \in CategoryInputs : addCategory(category)
  \/ checkBudgetAlerts
  \/ checkCategoryBudgetAlerts
  \/ BudgetTimer
  \/ WishTimer

SpecBudget == InitBudget /\ [][NextBudget]_vars

\* ---- wish rule
InitWish ==
  \E txs \in SeqsUpTo(TransactionInputs, MaxTransactions),
     ws \in SeqsUpTo(WishInputs, MaxWishes) :
    Mounted(txs, << >>, ws, << >>, FirstOfMonth)

NextWish ==
  \/ \E transaction \in TransactionInputs : addTransaction(transaction)
  \/ \E wish \in WishInputs : addWish(wish)
  \/ checkWishAchievements
  \/ WishTimer
  \/ BudgetTimer

SpecWish == InitWish /\ [][NextWish]_vars

\* ---- due-date rule
InitDue ==
  \E mes \in SeqsUpTo(MonthlyExpenseInputs, MaxMonthlyExpenses),
     now \in {d \in Dates : d.day <= d.monthLen} :
    Mounted(<< >>, << >>, << >>, mes, now)

\* The check as the mounted provider runs it on any day of the calendar: by the
\* effect's timer and by direct calls.
NextDue ==
  \/ checkMonthlyExpenseDueDates
  \/ DueEffectTimer

SpecDue == InitDue /\ [][NextDue]_vars

\* ======================================================================
\* Properties
\* ======================================================================
\* the notifications written by the rule check recorded in lastOp
Appended == SubSeq(notifications, lastOp.from + 1, Len(notifications))

\* sum of the amounts of the records of s at the indices in I
RECURSIVE SumAt(_, _)
SumAt(s, I) == IF I = {} THEN 0
               ELSE LET i == CHOOSE j \in I : TRUE IN s[i].amount + SumAt(s, I \ {i})

\* what a category has spent: the expense transactions carrying its name
Spent(txs, name) ==
  SumAt(txs, {i \in DOMAIN txs : txs[i].type = "expense" /\ txs[i].category = name})

BudgetCheckRan == lastOp.op \in {"checkBudgetAlerts", "checkCategoryBudgetAlerts", "budgetTimer"}

ExceededAbout(name) ==
  \E j \in DOMAIN Appended :
    /\ Appended[j].title \in {"Orcamento Excedido", "Orcamento Excedido!"}
    /\ Appended[j].message[1] = name

C2_ProgressTierBelowMaxBudget ==
  lastOp.op = "checkCategoryBudgetAlerts" =>
    \A i \in DOMAIN lastOp.seen.categories :
      LET category == lastOp.seen.categories[i]
          S == Spent(lastOp.seen.transactions, category.name)
          B == category.maxBudget
      IN  (4 * S >= 3 * B /\ S < B) =>
            /\ ~ ExceededAbout(category.name)
            /\ \E j \in DOMAIN Appended :
                 /\ Appended[j].title = IF 10 * S >= 9 * B THEN "Orcamento Quase Esgotado"
                                                           ELSE "Orcamento em 75%"
                 /\ Appended[j].message = <<category.name, S, B>>

\* the wishes of ws that a balance affords and that are not achieved yet
Achievable(ws, balance) ==
  {i \in DOMAIN ws : ws[i].status # "achieved" /\ balance >= ws[i].estimatedPrice}

WishCheckRan == lastOp.op \in {"checkWishAchievements", "wishTimer"}

\* C3: one run of checkWishAchievements, with I the income total and E the
\* expense total of the transactions it reads, appends one 'can be achieved'
\* success notification per wish that is not achieved and costs at most I - E,
\* and nothing else.
C3_OneNotificationPerAchievableWish ==
  WishCheckRan =>
    LET txs == lastOp.seen.transactions
        ws == lastOp.seen.wishes
        I == SumAt(txs, {i \in DOMAIN txs : txs[i].type = "income"})
        E == SumAt(txs, {i \in DOMAIN txs : txs[i].type = "expense"})
        goals == {<<ws[i].name, ws[i].estimatedPrice>> : i \in DOMAIN ws}
                   \cup {Appended[j].message : j \in DOMAIN Appended}
    IN  /\ \A j \in DOMAIN Appended :
             Appended[j].title = "Desejo Pode Ser Realizado!" /\ Appended[j].type = "success"
        /\ \A g \in goals :
             Cardinality({j \in DOMAIN Appended : Appended[j].message = g})
             = Cardinality({i \in Achievable(ws, I - E) :
                              <<ws[i].name, ws[i].estimatedPrice>> = g})

\* C3 witness: a run that found one wish affordable and another one not
C3_Witness ==
  /\ WishCheckRan
  /\ Len(Appended) = 1
  /\ \E i, k \in DOMAIN lastOp.seen.wishes :
       /\ lastOp.seen.wishes[i].status = "pending"
       /\ lastOp.seen.wishes[k].status = "pending"
       /\ lastOp.seen.wishes[i].estimatedPrice < lastOp.seen.wishes[k].estimatedPrice

DueCheckRan == lastOp.op \in {"checkMonthlyExpenseDueDates", "dueTimer", "dueEffectTimer"}

\* the reminders appended for charge day D, and the active expenses charged on D
RemindersFor(D) == {j \in DOMAIN Appended : Appended[j].message[3] = D}
ActiveOn(mes, D) == {i \in DOMAIN mes : mes[i].isActive /\ mes[i].dayOfMonth = D}

\* C4: one run of checkMonthlyExpenseDueDates on day D-7, D-3 or D of the month
\* appends exactly one notification per active expense charged on day D - the
\* 7-day, the 3-day or the due-today reminder - and an inactive expense gets
\* no reminder on any day.
C4_ReminderOnDueDays ==
  DueCheckRan =>
    \A D \in ChargeDays :
      LET mes == lastOp.seen.monthlyExpenses
          title == CASE today.day = D - 7 -> "Despesa Mensal Vencendo em 7 Dias"
                     [] today.day = D - 3 -> "Despesa Mensal Vencendo em 3 Dias"
                     [] today.day = D -> "Despesa Mensal Vence Hoje!"
                     [] OTHER -> "none"
      IN  /\ Cardinality(RemindersFor(D)) <= Cardinality(ActiveOn(mes, D))
          /\ title # "none" =>
               /\ Cardinality(RemindersFor(D)) = Cardinality(ActiveOn(mes, D))
               /\ \A j \in RemindersFor(D) : Appended[j].title = title

\* C4 witness: a run seven days ahead of an active expense, beside an inactive one
C4_Witness ==
  /\ DueCheckRan
  /\ Len(Appended) = 1
  /\ Appended[1].title = "Despesa Mensal Vencendo em 7 Dias"
  /\ \E i, k \in DOMAIN lastOp.seen.monthlyExpenses :
       /\ lastOp.seen.monthlyExpenses[i].isActive
       /\ lastOp.seen.monthlyExpenses[i].dayOfMonth = today.day + 7
       /\ ~ lastOp.seen.monthlyExpenses[k].isActive

\* C5: a run of checkMonthlyExpenseDueDates on the day after the charge day of
\* an active expense (today = D + 1) appends exactly one 'overdue by one day'
\* notification for it.
C5_OverdueTheDayAfter ==
  DueCheckRan =>
    \A D \in ChargeDays :
      today.day = D + 1 =>
        Cardinality({j \in RemindersFor(D) : Appended[j].title = "Despesa Mensal Vencida!"})
        = Cardinality(ActiveOn(lastOp.seen.monthlyExpenses, D))

\* ---- persistence
\* the local-storage collection the last call was about, after and before it
LocalNow == loadFromStorage(localStorage, lastCall.key, << >>)
LocalBefore == loadFromStorage(lastCall.before, lastCall.key, << >>)

Mutation == lastCall.kind \in {"add", "update", "delete"}
Recurring == lastCall.key \in {MONTHLY_INCOMES, MONTHLY_EXPENSES}

\* record r carries every field of data with the same value
Carries(r, data) == \A f \in DOMAIN data : f \in DOMAIN r /\ r[f] = data[f]

\* the mutation of the last call shows in the local-storage collection: the
\* added record has been appended, the record with the given id has taken the
\* new field values, or no record with the deleted id is left
AppliedLocally ==
  CASE lastCall.kind = "add" ->
         /\ Len(LocalNow) = Len(LocalBefore) + 1
         /\ Carries(LocalNow[Len(LocalNow)], lastCall.data)
    [] lastCall.kind = "update" ->
         /\ Len(LocalNow) = Len(LocalBefore)
         /\ \A i \in DOMAIN LocalBefore :
              LocalBefore[i].id = lastCall.id => Carries(LocalNow[i], lastCall.data)
    [] lastCall.kind = "delete" ->
         \A i \in DOMAIN LocalNow : LocalNow[i].id # lastCall.id
    [] OTHER -> TRUE

\* C6: with no cloud client (db is null), every add, update and delete of the
\* facade, whatever the collection, has been applied to the matching
\* local-storage collection when it resolves.
C6_EveryMutationAppliedLocally ==
  (db = NoDb /\ Mutation /\ lastCall.outcome = "resolved") => AppliedLocally

CloudCallThrew == db # NoDb /\ lastCall.thrown # << >>

ProviderCall ==
  lastCall.fn \in {"FinanceProvider.addTransaction", "FinanceProvider.addCategory",
                   "FinanceProvider.updateCategory", "FinanceProvider.deleteCategory",
                   "FinanceProvider.addWish", "FinanceProvider.addNotification",
                   "FinanceProvider.deleteNotification",
                   "FinanceProvider.markNotificationAsRead",
                   "FinanceProvider.markAllNotificationsAsRead",
                   "FinanceProvider.addShoppingItem", "FinanceProvider.updateShoppingItem",
                   "FinanceProvider.deleteShoppingItem",
                   "FinanceProvider.toggleShoppingItemPurchased"}

Created(items) == \E i \in DOMAIN items : items[i].id = lastCall.id /\ Carries(items[i], lastCall.data)

\* C11: without a cloud client, once addMonthlyIncome or addMonthlyExpense of
\* the provider has resolved, the provider's in-memory collection holds the
\* new record (brought there by the 'localStorageChange' event).
C11_FallbackAddReachesMemory ==
  (db = NoDb /\ lastCall.kind = "add" /\ lastCall.outcome = "resolved"
   /\ lastCall.fn \in {"FinanceProvider.addMonthlyIncome",
                       "FinanceProvider.addMonthlyExpense"}) =>
    /\ lastCall.events = dispatchStorageChangeEvent(lastCall.key)
    /\ Created(IF lastCall.key = MONTHLY_INCOMES THEN monthlyIncomes ELSE monthlyExpenses)

\* C12: with a cloud client, once the startup of the provider has settled,
\* every record that was in a local-storage collection is a document of the
\* matching Firestore collection.
C12_StartupCopiesLocalStorageToCloud ==
  (db # NoDb /\ lastCall.fn = "FinanceProvider.loadData" /\ lastCall.thrown = << >>) =>
    \A key \in STORAGE_KEYS :
      \A i \in DOMAIN loadFromStorage(lastCall.before, key, << >>) :
        \E j \in DOMAIN getDocs(cloud, key) :
          getDocs(cloud, key)[j] = loadFromStorage(lastCall.before, key, << >>)[i]

\* no two records of the sequence have the same id
UniqueIds(items) == \A i, j \in DOMAIN items : items[i].id = items[j].id => i = j

C14_AmountsNonNegative ==
  /\ \A i \in DOMAIN transactions : transactions[i].amount >= 0
  /\ \A i \in DOMAIN monthlyIncomes : monthlyIncomes[i].amount >= 0
  /\ \A i \in DOMAIN monthlyExpenses : monthlyExpenses[i].amount >= 0
  /\ \A i \in DOMAIN wishes : wishes[i].estimatedPrice >= 0
  /\ \A i \in DOMAIN shoppingList : shoppingList[i].price >= 0
  /\ \A i \in DOMAIN categories : categories[i].maxBudget >= 0

\* C15: the budget checks scheduled by addTransaction for an expense run on
\* the state after the mutation: the transactions they sum are the provider's
\* transactions with the new expense, so they hold at least one expense.
C15_TimerSeesTheNewExpense ==
  lastOp.op = "budgetTimer" =>
    /\ \E i \in DOMAIN lastOp.seen.transactions :
         lastOp.seen.transactions[i].type = "expense"
    /\ \A i \in DOMAIN lastOp.seen.transactions :
         \E j \in DOMAIN transactions : transactions[j] = lastOp.seen.transactions[i]
    /\ Len(timers) = 0 => lastOp.seen.transactions = transactions

\* the notifications about a category appended by each of the two passes
FirstPassAbout(name) ==
  \E j \in DOMAIN Appended :
    /\ Appended[j].title \in {"Orcamento Excedido", "Orcamento Proximo do Limite"}
    /\ Appended[j].message[1] = name
SecondPassAbout(name) ==
  \E j \in DOMAIN Appended :
    /\ Appended[j].title \in {"Orcamento Atingido!", "Orcamento Excedido!",
                               "Orcamento Quase Esgotado", "Orcamento em 75%"}
    /\ Appended[j].message[1] = name

Copies(feed, title, message) ==
  Cardinality({j \in DOMAIN feed : feed[j].title = title /\ feed[j].message = message})

\* C17: checkWishAchievements is not idempotent: every run of it, whatever the
\* feed already holds, adds for each wish that is not achieved and costs at
\* most the balance one more notification with the same title and message (so
\* k runs over unchanged transactions and wishes add k of them), and the run
\* leaves the wishes as they were: nothing records that a wish was notified.
C17_WishCheckNotIdempotent ==
  [][ lastOp'.op = "checkWishAchievements" =>
        LET I == SumAt(transactions, {i \in DOMAIN transactions :
                                        transactions[i].type = "income"})
            E == SumAt(transactions, {i \in DOMAIN transactions :
                                        transactions[i].type = "expense"})
            achievable == Achievable(wishes, I - E)
            Goal(i) == <<wishes[i].name, wishes[i].estimatedPrice>>
        IN  /\ wishes' = wishes
            /\ transactions' = transactions
            /\ \A i \in achievable :
                 Copies(notifications', "Desejo Pode Ser Realizado!", Goal(i))
                 = Copies(notifications, "Desejo Pode Ser Realizado!", Goal(i))
                   + Cardinality({k \in achievable : Goal(k) = Goal(i)}) ]_vars

\* C17 witness: a second run over the same wishes and transactions repeated
\* the notification the first run had appended
C17_Witness ==
  /\ lastOp.op = "checkWishAchievements"
  /\ lastOp.seen.wishes = wishes
  /\ Len(Appended) >= 1
  /\ \E j \in 1..lastOp.from :
       /\ notifications[j].title = "Desejo Pode Ser Realizado!"
       /\ notifications[j].title = Appended[1].title
       /\ notifications[j].message = Appended[1].message

\* C18: checkMonthlyExpenseDueDates keeps no record of what it has reminded
\* of: every run on day D-7, D-3 or D of the month, whatever the feed already
\* holds, adds the matching reminder once more for each active expense charged
\* on day D (so two runs on the same day add it twice), and the run leaves the
\* recurring expenses and the day as they were.
C18_DueCheckKeepsNoDedupState ==
  [][ lastOp'.op = "checkMonthlyExpenseDueDates" =>
        /\ monthlyExpenses' = monthlyExpenses
        /\ today' = today
        /\ \A D \in ChargeDays :
             LET title == CASE today.day = D - 7 -> "Despesa Mensal Vencendo em 7 Dias"
                            [] today.day = D - 3 -> "Despesa Mensal Vencendo em 3 Dias"
                            [] today.day = D -> "Despesa Mensal Vence Hoje!"
                            [] OTHER -> "none"
                 Reminder(i) == <<monthlyExpenses[i].name, monthlyExpenses[i].amount, D>>
                 due == ActiveOn(monthlyExpenses, D)
             IN  title # "none" =>
                   \A i \in due :
                     Copies(notifications', title, Reminder(i))
                     = Copies(notifications, title, Reminder(i))
                       + Cardinality({k \in due : Reminder(k) = Reminder(i)}) ]_vars

\* C18 witness: a second run on the same day repeated the reminder that the
\* first run had appended
C18_Witness ==
  /\ lastOp.op = "checkMonthlyExpenseDueDates"
  /\ lastOp.seen.monthlyExpenses = monthlyExpenses
  /\ Len(Appended) >= 1
  /\ \E j \in 1..lastOp.from :
       /\ notifications[j].title \in {"Despesa Mensal Vencendo em 7 Dias",
                                      "Despesa Mensal Vencendo em 3 Dias",
                                      "Despesa Mensal Vence Hoje!"}
       /\ notifications[j].title = Appended[1].title
       /\ notifications[j].message = Appended[1].message

\* the days of the months of a common year, and the calendar days from a day
\* of a month to the next date whose day-of-month is D (no two months in a row
\* are shorter than 31 days, so that date is at most two months ahead)
MonthDays == <<31, 28, 31, 30, 31, 30, 31, 31, 30, 31, 30, 31>>
DaysToNextDate(month, day, D) ==
  LET following == MonthDays[(month % 12) + 1]
  IN  IF day <= D /\ D <= MonthDays[month] THEN D - day
      ELSE IF D <= following THEN MonthDays[month] - day + D
      ELSE MonthDays[month] - day + following + D

\* C19: on every day of a month of 28 to 31 days on which
\* checkMonthlyExpenseDueDates has run and for every charge day D in 1..31, the
\* daysUntilDue it computes is the number of calendar days from today to the
\* next date whose day-of-month is D.
C19_DaysUntilDueIsCalendarDistance ==
  DueCheckRan =>
    \A D \in 1..31 :
      \A month \in DOMAIN MonthDays :
        MonthDays[month] = today.monthLen =>
          daysUntilDue(today, D) = DaysToNextDate(month, today.day, D)

\* the pending timers that will run checkWishAchievements
WishTimers(ts) == {i \in DOMAIN ts : ts[i].kind = "wish"}

\* C20: a wish mutation triggers the rule evaluator: a step of addWish that
\* adds a not-achieved wish costing at most the balance (income total minus
\* expense total) runs the wish check - it appends the 'can be achieved'
\* notification for that wish or leaves a new timer of checkWishAchievements
\* pending - so that the notification comes without a further transaction.
C20_AddWishTriggersWishCheck ==
  [][ Len(wishes') = Len(wishes) + 1 =>
        LET wish == wishes'[Len(wishes')]
            I == SumAt(transactions, {i \in DOMAIN transactions :
                                        transactions[i].type = "income"})
            E == SumAt(transactions, {i \in DOMAIN transactions :
                                        transactions[i].type = "expense"})
            goal == <<wish.name, wish.estimatedPrice>>
        IN  (wish.status # "achieved" /\ wish.estimatedPrice <= I - E) =>
              \/ Copies(notifications', "Desejo Pode Ser Realizado!", goal)
                   > Copies(notifications, "Desejo Pode Ser Realizado!", goal)
              \/ Cardinality(WishTimers(timers')) > Cardinality(WishTimers(timers)) ]_vars

\* C21: when a notification write fails while a rule check run by a timer of
\* the cloud-backed provider is emitting it (the check stores fewer
\* notifications than it found due), the failure reaches a caller: the step
\* settles an operation as rejected.
C21_CheckFailureRejectsTheMutation ==
  [][ (/\ db # NoDb
       /\ lastOp'.op \in {"budgetTimer", "wishTimer"}
       /\ Len(timers') < Len(timers)
       /\ LET seen == lastOp'.seen
               drafts == IF lastOp'.op = "wishTimer"
                           THEN checkWishAchievementsDrafts(seen.wishes, seen.transactions)
                           ELSE checkBudgetAlertsDrafts(seen.categories, seen.transactions)
                                \o checkCategoryBudgetAlertsDrafts(seen.categories,
                                                                   seen.transactions)
           IN  Len(getDocs(cloud', NOTIFICATIONS))
               < Len(getDocs(cloud, NOTIFICATIONS)) + Len(drafts))
      => lastCall'.outcome = "rejected" ]_vars

C25_MarkAllReadsEveryNotification ==
  [][ (\/ lastOp'.op = "markAllNotificationsAsRead"
       \/ /\ lastCall' # lastCall
          /\ lastCall'.fn = "FinanceProvider.markAllNotificationsAsRead"
          /\ lastCall'.outcome = "resolved")
      => /\ getUnreadNotificationsCount(notifications') = 0
         /\ Len(notifications') = Len(notifications)
         /\ \A i \in DOMAIN notifications :
              /\ notifications'[i].isRead
              /\ notifications'[i] = [notifications[i] EXCEPT !.isRead = TRUE] ]_vars

\* C25 witness: the bulk mark has run on a feed of several notifications, all
\* of which were created unread
C25_Witness ==
  /\ lastOp.op = "markAllNotificationsAsRead"
  /\ Len(notifications) >= 2
  /\ \A i \in DOMAIN notifications : notifications[i].isRead
  /\ \E i, j \in DOMAIN notifications : notifications[i].title # notifications[j].title

\* the seven collections of the store by their storage key
Collections ==
  [k \in STORAGE_KEYS |->
     CASE k = TRANSACTIONS -> transactions
       [] k = MONTHLY_INCOMES -> monthlyIncomes
       [] k = MONTHLY_EXPENSES -> monthlyExpenses
       [] k = CATEGORIES -> categories
       [] k = WISHES -> wishes
       [] k = NOTIFICATIONS -> notifications
       [] OTHER -> shoppingList]

\* a step that appends one record under an unused id to the collection of key
\* (its fields those of input), one unread notification under another unused
\* id to the feed, and leaves every other collection alone
AddedOne(key, input) ==
  LET used == UNION {IdsOf(Collections[k]) : k \in STORAGE_KEYS}
      record == Collections'[key][Len(Collections'[key])]
      notice == notifications'[Len(notifications')]
  IN  /\ Len(Collections'[key]) = Len(Collections[key]) + 1
      /\ Collections'[key] = Append(Collections[key], record)
      /\ WithoutId(record) = input
      /\ record.id \notin used
      /\ notifications' = Append(notifications, notice)
      /\ notice.id \notin used \cup {record.id}
      /\ ~ notice.isRead
      /\ \A k \in STORAGE_KEYS \ {key, NOTIFICATIONS} : Collections'[k] = Collections[k]

C30_ToggleTwiceRestores ==
  [][ \A id \in IdsOf(shoppingList) : \A stale \in BOOLEAN :
        (/\ lastOp.op = "toggleShoppingItemPurchased"
         /\ lastOp.seen.id = id
         /\ id \in IdsOf(lastOp.seen.before)
         /\ toggleShoppingItemPurchased(id, stale))
        => shoppingList' = lastOp.seen.before ]_vars

\* what one pass owes one category, as <<title, type, name>>: the first rule
\* that matches its spending S and budget, or nothing
FirstPassRule(category, S) ==
  IF PercentageAtLeast(S, category.budget, 100)
    THEN << <<"Orcamento Excedido", "warning", category.name>> >>
  ELSE IF PercentageAtLeast(S, category.budget, 80)
    THEN << <<"Orcamento Proximo do Limite", "warning", category.name>> >>
  ELSE << >>
SecondPassRule(category, S) ==
  IF S = category.budget THEN << <<"Orcamento Atingido!", "success", category.name>> >>
  ELSE IF S > category.budget THEN << <<"Orcamento Excedido!", "error", category.name>> >>
  ELSE IF PercentageAtLeast(S, category.budget, 90)
    THEN << <<"Orcamento Quase Esgotado", "warning", category.name>> >>
  ELSE IF PercentageAtLeast(S, category.budget, 75)
    THEN << <<"Orcamento em 75%", "info", category.name>> >>
  ELSE << >>

\* the notifications a direct call of one of the two checks appended are, in
\* the order of the categories, those its rules owe: at most one per category
OnePerCategoryByFirstRule ==
  LET txs == lastOp.seen.transactions
      First(category) == FirstPassRule(category, Spent(txs, category.name))
      Second(category) == SecondPassRule(category, Spent(txs, category.name))
      got == [j \in DOMAIN Appended |->
                <<Appended[j].title, Appended[j].type, Appended[j].message[1]>>]
  IN  /\ lastOp.op = "checkBudgetAlerts" => got = FlatMap(First, lastOp.seen.categories)
      /\ lastOp.op = "checkCategoryBudgetAlerts"
           => got = FlatMap(Second, lastOp.seen.categories)

C28_DataSurvivesMount ==
  lastCall.kind = "settled" =>
    \A key \in STORAGE_KEYS :
      /\ Collections[key] = loadFromStorage(lastCall.before, key, << >>)
      /\ loadFromStorage(localStorage, key, << >>)
         = loadFromStorage(lastCall.before, key, << >>)

\* C29: every change of the recurring-expense collection to a non-empty value
\* leaves exactly one pending effect timer, the one scheduled for the new
\* collection (a timer pending from an earlier change is cancelled), a change
\* to the empty collection leaves none, at most one effect timer is pending
\* at any time, and an effect-scheduled check only runs while the collection
\* is non-empty.
C29_OneEffectTimerPerChange ==
  [][ /\ Len(dueTimer') <= 1
      /\ monthlyExpenses' # monthlyExpenses =>
           IF monthlyExpenses' # << >>
             THEN /\ Len(dueTimer') = 1
                  /\ dueTimer'[1].monthlyExpenses = monthlyExpenses'
             ELSE dueTimer' = << >>
      /\ DueEffectTimer =>
           /\ monthlyExpenses # << >>
           /\ dueTimer[1].monthlyExpenses = monthlyExpenses
           /\ dueTimer' = << >> ]_vars

\* the effect timer ran for a collection that had grown to two records, so a
\* change had replaced the timer scheduled for the shorter collection
C29_Witness ==
  /\ lastOp.op = "dueEffectTimer"
  /\ Len(monthlyExpenses) = 2
  /\ lastOp.seen.monthlyExpenses = monthlyExpenses
  /\ dueTimer = << >>

\* C9: a load of any collection made without a cloud client, or whose cloud
\* read threw, returns the collection held in local storage.
C9_LoadFallsBackToLocalStorage ==
  (lastCall.kind = "load" /\ (db = NoDb \/ lastCall.thrown # << >>)) =>
    lastCall.result = LocalBefore

\* a load of the store that follows a save of the same key
LoadedAfterSave == lastCall.kind = "load" /\ lastCall.key \in DOMAIN saved

FiniteNumbers(r) == \A f \in (DOMAIN r) \cap NumericFields : r[f] # NaN

\* a record the load function of `key` returns as it is: a recurring income or
\* expense has a day of month other than 0
HasDay(key, r) ==
  key \in {MONTHLY_INCOMES, MONTHLY_EXPENSES} =>
    "dayOfMonth" \in DOMAIN r /\ r.dayOfMonth # 0

====
